---------------------------- MODULE Spec2Model ----------------------------
(***************************************************************************)
(* A model of the formula renderer: the scanner (parse/lexer.rs), the      *)
(* recursive-descent grammar (parse/mod.rs, parse/rules), the layout       *)
(* engine (layout.rs) and the render_formula pipeline (lib.rs).            *)
(*                                                                         *)
(* A character is a one-character string; a formula is a sequence of       *)
(* characters.  Cursor positions are 0-based as in the source, so the      *)
(* character under the cursor is src[pos + 1].  Option<T> is a sequence    *)
(* of length at most one.                                                  *)
(***************************************************************************)
EXTENDS Integers, Sequences, FiniteSets, TLC

None == <<>>
Some(x) == <<x>>

Min(a, b) == IF a <= b THEN a ELSE b
Max(a, b) == IF a >= b THEN a ELSE b

Lower == {"a","b","c","d","e","f","g","h","i","j","k","l","m",
          "n","o","p","q","r","s","t","u","v","w","x","y","z"}
Upper == {"A","B","C","D","E","F","G","H","I","J","K","L","M",
          "N","O","P","Q","R","S","T","U","V","W","X","Y","Z"}
Digits == {"0","1","2","3","4","5","6","7","8","9"}

IsAsciiAlphabetic(ch) == ch \in Lower \cup Upper

WhiteSpace == {" ", "\t", "\n"}

RECURSIVE Join(_)
Join(s) == IF s = <<>> THEN "" ELSE Head(s) \o Join(Tail(s))

\* A trim that drops nothing.
TrimNothing(s) == s

\* str::trim: drop leading and trailing white space.
Trim(s) ==
    LET n == Len(s) IN
    IF \A i \in 1..n : s[i] \in WhiteSpace THEN <<>>
    ELSE SubSeq(s,
                CHOOSE i \in 1..n :
                    s[i] \notin WhiteSpace /\ \A j \in 1..(i - 1) : s[j] \in WhiteSpace,
                CHOOSE i \in 1..n :
                    s[i] \notin WhiteSpace /\ \A j \in (i + 1)..n : s[j] \in WhiteSpace)

(***************************************************************************)
(* Errors (error.rs).  detail carries the message of a ParseError, ctx the *)
(* context label or name the message is formatted with.                    *)
(***************************************************************************)
RenderError(kind, detail, ctx) == [kind |-> kind, detail |-> detail, ctx |-> ctx]
ParseError(detail) == RenderError("ParseError", detail, "")
ParseErrorIn(detail, ctx) == RenderError("ParseError", detail, ctx)
EmptyInput == RenderError("EmptyInput", "", "")
InvalidUtf8 == RenderError("InvalidUtf8", "", "")
UnexpectedPanic == RenderError("UnexpectedPanic", "", "")
RenderFailure == RenderError("RenderFailure", "usvg", "")
FontLoadError == RenderError("FontLoadError", "", "")

OkR(v, p) == [ok |-> TRUE, val |-> v, pos |-> p]
ErrR(e) == [ok |-> FALSE, err |-> e]

(***************************************************************************)
(* Syntax tree (ast/mod.rs).                                               *)
(***************************************************************************)
Text(content) == [type |-> "Text", content |-> content]
Group(children) == [type |-> "Group", children |-> children]
Fraction(n, d) == [type |-> "Fraction", numerator |-> n, denominator |-> d]
Sqrt(v) == [type |-> "Sqrt", value |-> v]
Delimiter(glyph) == [glyph |-> glyph]
Delimited(l, inner, r) == [type |-> "Delimited", left |-> l, inner |-> inner, right |-> r]
LargeOperator(content, scale) == [type |-> "LargeOperator", content |-> content, scale |-> scale]
Symbol(sym) == [type |-> "Symbol", symbol |-> sym]
Matrix(rows) == [type |-> "Matrix", rows |-> rows]
Decorated(base, decoration) == [type |-> "Decorated", base |-> base, decoration |-> decoration]
Scripts(base, sup, sub) ==
    [type |-> "Scripts", base |-> base, superscript |-> sup, subscript |-> sub]

(***************************************************************************)
(* Scanner (parse/lexer.rs).                                               *)
(***************************************************************************)
PeekChar(src, pos) == IF pos < Len(src) THEN Some(src[pos + 1]) ELSE None

\* consume_char: the position after consuming one character, if there is one.
ConsumeChar(src, pos) == IF pos < Len(src) THEN pos + 1 ELSE pos

\* advance without the bound of the length.
AdvancePast(src, pos, count) == pos + count

\* advance.
Advance(src, pos, count) == Min(pos + count, Len(src))

\* The first position >= pos whose character is in stops, or the end.
RunEnd(src, pos, stops) ==
    LET S == {i \in pos..(Len(src) - 1) : src[i + 1] \in stops}
    IN  IF S = {} THEN Len(src) ELSE CHOOSE i \in S : \A j \in S : i <= j

\* The first position >= pos whose character is not in keep, or the end.
RunWhile(src, pos, keep) ==
    LET S == {i \in pos..(Len(src) - 1) : src[i + 1] \notin keep}
    IN  IF S = {} THEN Len(src) ELSE CHOOSE i \in S : \A j \in S : i <= j

ParseCommand(src, pos) ==
    LET end == RunWhile(src, pos, Lower \cup Upper)
    IN  IF end > pos THEN [name |-> SubSeq(src, pos + 1, end), pos |-> end]
        ELSE IF pos < Len(src) THEN [name |-> <<src[pos + 1]>>, pos |-> pos + 1]
        ELSE [name |-> <<>>, pos |-> pos]

TextStops == {"{", "}", "^", "_", "\\"}

\* parse_text_segment that reads nothing and leaves the cursor where it is.
ParseTextSegmentStill(src, pos) == [text |-> <<>>, pos |-> pos]

\* parse_text_segment.
ParseTextSegment(src, pos) ==
    LET end == RunEnd(src, pos, TextStops)
    IN  [text |-> SubSeq(src, pos + 1, end), pos |-> end]

\* The loop of consume_braced_content from position i with the given depth:
\* the position just after the closing brace that brings the depth to zero,
\* or -1 when the input ends first.
RECURSIVE BraceScan(_, _, _)
BraceScan(src, i, depth) ==
    IF i >= Len(src) THEN -1
    ELSE IF src[i + 1] = "{" THEN BraceScan(src, i + 1, depth + 1)
    ELSE IF src[i + 1] = "}" THEN
        IF depth - 1 = 0 THEN i + 1 ELSE BraceScan(src, i + 1, depth - 1)
    ELSE BraceScan(src, i + 1, depth)

\* consume_braced_content taking the rest of the input for the content when
\* the input ends before the closing brace.
ConsumeBracedContentToEnd(src, pos, context) ==
    IF PeekChar(src, pos) = Some("{") THEN
        LET end == BraceScan(src, pos + 1, 1)
        IN  IF end = -1 THEN OkR(SubSeq(src, pos + 2, Len(src)), Len(src))
            ELSE OkR(SubSeq(src, pos + 2, end - 1), end)
    ELSE ErrR(ParseErrorIn("requires {...}", context))

ConsumeBracedContent(src, pos, context) ==
    IF PeekChar(src, pos) = Some("{") THEN
        LET end == BraceScan(src, pos + 1, 1)
        IN  IF end = -1 THEN ErrR(ParseErrorIn("missing matching brace", context))
            ELSE OkR(SubSeq(src, pos + 2, end - 1), end)
    ELSE ErrR(ParseErrorIn("requires {...}", context))

StartsWithStr(src, pos, pattern) ==
    /\ pos + Len(pattern) <= Len(src)
    /\ \A k \in 1..Len(pattern) : src[pos + k] = pattern[k]


(***************************************************************************)
(* Name tables (parse/rules/functions.rs, operators.rs, spacing.rs;        *)
(* symbols.rs is declared by rules/mod.rs).  A glyph outside ASCII is      *)
(* written as one character named in angle brackets.                       *)
(***************************************************************************)
FUNCTIONS ==
    {"sin","cos","tan","sec","csc","cot","sinh","cosh","tanh","csch","sech",
     "coth","arcsin","arccos","arctan","arccsc","arcsec","arccot","arsinh",
     "arcosh","artanh","arcsch","arsech","arcoth","log","ln","exp","det",
     "ker","dim","sup","inf","lim","max","min"}

OP_FUNCTIONS == {"log","ln","exp","det","sup","inf","dim","ker"}

\* (scale in thousandths, display string)
LARGE_OPERATORS ==
    [n \in {"lim","limsup","liminf","max","min","sup","inf","argmax","argmin",
            "bigcup","bigcap","bigsqcup","bigvee","bigwedge","bigoplus",
            "bigotimes","bigodot","coprod"} |->
        CASE n = "lim" -> <<1100, <<"l","i","m">> >>
          [] n = "limsup" -> <<1000, <<"l","i","m","s","u","p">> >>
          [] n = "liminf" -> <<1000, <<"l","i","m","i","n","f">> >>
          [] n = "max" -> <<1100, <<"m","a","x">> >>
          [] n = "min" -> <<1100, <<"m","i","n">> >>
          [] n = "sup" -> <<1100, <<"s","u","p">> >>
          [] n = "inf" -> <<1100, <<"i","n","f">> >>
          [] n = "argmax" -> <<1000, <<"a","r","g","m","a","x">> >>
          [] n = "argmin" -> <<1000, <<"a","r","g","m","i","n">> >>
          [] OTHER -> <<1100, <<"<" \o n \o ">">> >>]

SPACING ==
    [n \in {",", ";", ":", "!", "quad", "qquad", " "} |->
        CASE n = "," -> <<"<thinsp>">>
          [] n = ";" -> <<"<thicksp>">>
          [] n = ":" -> <<"<medsp>">>
          [] n = "!" -> <<"<hairsp>">>
          [] n = "quad" -> <<"<emsp>">>
          [] n = "qquad" -> <<"<emsp>", "<emsp>">>
          [] OTHER -> <<"<ensp>">>]

\* symbols::map_symbol: Greek letters, relations, arrows and the like, each
\* mapped to one display character.
SYMBOLS ==
    {"pm","mp","leq","geq","neq","rightarrow","Leftrightarrow","cdots","infty",
     "forall","alpha","beta","Delta","ell","emptyset","hbar","times","cdot"}

MapTextCommand(command) == IF Join(command) \in FUNCTIONS THEN Some(command) ELSE None
MapFunctionName(command) == IF Join(command) \in OP_FUNCTIONS THEN Some(command) ELSE None
MapSymbol(command) ==
    IF Join(command) \in SYMBOLS THEN Some(<<"<" \o Join(command) \o ">">>) ELSE None
MapSpacing(command) ==
    IF Join(command) \in DOMAIN SPACING THEN Some(SPACING[Join(command)]) ELSE None

OrElse(a, b) == IF a # None THEN a ELSE b

HandleTextCommand(command) ==
    OrElse(MapTextCommand(command),
    OrElse(MapFunctionName(command),
    OrElse(MapSymbol(command), MapSpacing(command))))

IsLargeOperator(command) == Join(command) \in DOMAIN LARGE_OPERATORS

BuildLargeOperator(command) ==
    IF Join(command) \in DOMAIN LARGE_OPERATORS
    THEN LargeOperator(LARGE_OPERATORS[Join(command)][2], LARGE_OPERATORS[Join(command)][1])
    ELSE LargeOperator(command, 1000)

(***************************************************************************)
(* Tree helpers of the grammar (parse/mod.rs).                             *)
(***************************************************************************)
NormalizeGroupStatic(node) ==
    IF node.type = "Group" /\ Len(node.children) = 1 THEN node.children[1] ELSE node

RECURSIVE MergeInto(_, _)
MergeInto(merged, nodes) ==
    IF nodes = <<>> THEN merged
    ELSE LET node == Head(nodes) IN
         IF /\ node.type = "Text"
            /\ merged # <<>>
            /\ merged[Len(merged)].type = "Text"
         THEN MergeInto(
                [merged EXCEPT ![Len(merged)] =
                    Text(merged[Len(merged)].content \o node.content)],
                Tail(nodes))
         ELSE MergeInto(Append(merged, node), Tail(nodes))

\* merge_text_nodes leaving the nodes as they came.
MergeTextNodesApart(nodes) == nodes

MergeTextNodes(nodes) == MergeInto(<<>>, nodes)

\* attach_script without its check for a script already present.
AttachScriptOver(stack, symbol, script) ==
    IF stack = <<>> THEN [ok |-> FALSE, err |-> ParseError("script without base")]
    ELSE LET base == stack[Len(stack)]
             rest == SubSeq(stack, 1, Len(stack) - 1)
             scripts == IF base.type = "Scripts" THEN base ELSE Scripts(base, None, None)
         IN  IF symbol = "^"
             THEN [ok |-> TRUE,
                   stack |-> Append(rest, [scripts EXCEPT !.superscript = Some(script)])]
             ELSE [ok |-> TRUE,
                   stack |-> Append(rest, [scripts EXCEPT !.subscript = Some(script)])]

\* attach_script: [ok, stack] or [ok, err].
AttachScript(stack, symbol, script) ==
    IF stack = <<>> THEN [ok |-> FALSE, err |-> ParseError("script without base")]
    ELSE LET base == stack[Len(stack)]
             rest == SubSeq(stack, 1, Len(stack) - 1)
             scripts == IF base.type = "Scripts" THEN base ELSE Scripts(base, None, None)
         IN  IF symbol = "^" THEN
                 IF scripts.superscript # None
                 THEN [ok |-> FALSE, err |-> ParseError("duplicate superscript")]
                 ELSE [ok |-> TRUE,
                       stack |-> Append(rest, [scripts EXCEPT !.superscript = Some(script)])]
             ELSE IF symbol = "_" THEN
                 IF scripts.subscript # None
                 THEN [ok |-> FALSE, err |-> ParseError("duplicate subscript")]
                 ELSE [ok |-> TRUE,
                       stack |-> Append(rest, [scripts EXCEPT !.subscript = Some(script)])]
             ELSE [ok |-> TRUE, stack |-> Append(rest, scripts)]

(***************************************************************************)
(* Style wrappers (parse/rules/styles.rs).  A styled character is named by *)
(* its style and the character it was mapped from.                         *)
(***************************************************************************)
StyleOf(name) ==
    CASE name = "mathbf" -> Some("Bold")
      [] name = "mathit" -> Some("Italic")
      [] name = "mathrm" -> Some("Roman")
      [] name = "mathsf" -> Some("SansSerif")
      [] name = "mathtt" -> Some("Monospace")
      [] name = "mathbb" -> Some("DoubleStruck")
      [] name = "mathcal" -> Some("Calligraphic")
      [] name = "mathfrak" -> Some("Fraktur")
      [] OTHER -> None

MapChar(ch, style) ==
    CASE style = "Italic" -> None
      [] style = "Roman" -> Some(ch)
      [] style \in {"Bold", "SansSerif", "Monospace", "DoubleStruck"} ->
            IF ch \in Upper \cup Lower \cup Digits THEN Some(style \o ":" \o ch) ELSE None
      [] style = "Calligraphic" ->
            IF ch \in Upper THEN Some(style \o ":" \o ch) ELSE None
      [] style = "Fraktur" ->
            IF ch \in Upper \cup Lower THEN Some(style \o ":" \o ch) ELSE None

\* apply_style_to_text keeping only the characters the style maps.
ApplyStyleToTextMapped(content, style) ==
    LET mapped == SelectSeq(content, LAMBDA ch : MapChar(ch, style) # None)
    IN  [i \in 1..Len(mapped) |-> MapChar(mapped[i], style)[1]]

\* apply_style_to_text.
ApplyStyleToText(content, style) ==
    [i \in 1..Len(content) |->
        IF MapChar(content[i], style) # None THEN MapChar(content[i], style)[1]
        ELSE content[i]]

RECURSIVE ApplyStyle(_, _)
ApplyStyle(node, style) ==
    CASE node.type = "Text" -> Text(ApplyStyleToText(node.content, style))
      [] node.type = "Group" ->
            Group([i \in 1..Len(node.children) |-> ApplyStyle(node.children[i], style)])
      [] node.type = "Fraction" ->
            Fraction(ApplyStyle(node.numerator, style), ApplyStyle(node.denominator, style))
      [] node.type = "Sqrt" -> Sqrt(ApplyStyle(node.value, style))
      [] node.type = "Delimited" ->
            Delimited(node.left, ApplyStyle(node.inner, style), node.right)
      [] node.type = "Matrix" ->
            Matrix([r \in 1..Len(node.rows) |->
                        [c \in 1..Len(node.rows[r]) |-> ApplyStyle(node.rows[r][c], style)]])
      [] node.type = "Decorated" -> Decorated(ApplyStyle(node.base, style), node.decoration)
      [] node.type = "Scripts" ->
            Scripts(ApplyStyle(node.base, style),
                    [i \in 1..Len(node.superscript) |-> ApplyStyle(node.superscript[i], style)],
                    [i \in 1..Len(node.subscript) |-> ApplyStyle(node.subscript[i], style)])
      [] OTHER -> node


(***************************************************************************)
(* Grammar (parse/mod.rs and parse/rules).  Every routine takes the        *)
(* parser (src, pos) and returns OkR(value, new pos) or ErrR(error).       *)
(***************************************************************************)
\* The routines call one another through Rule, which runs the routine named
\* in the call: a name in capitals is the call, the name as in the source is
\* the body of the routine.
RECURSIVE Rule(_)

ParseGroup(src, pos, stop) ==
    Rule([rule |-> "parse_group", src |-> src, pos |-> pos, stop |-> stop])

\* One iteration of the loop of parse_group.
GroupIter(src, pos, nodes, stop) ==
    Rule([rule |-> "group_iter", src |-> src, pos |-> pos, nodes |-> nodes, stop |-> stop])

\* parse::parse after its guard.
ParseFormula(src) == Rule([rule |-> "parse", src |-> src])

ParseAtom(src, pos) == Rule([rule |-> "parse_atom", src |-> src, pos |-> pos])

ParseBlock(src, pos, context) ==
    Rule([rule |-> "parse_block", src |-> src, pos |-> pos, context |-> context])

ParseDelimiterToken(src, pos) ==
    Rule([rule |-> "parse_delimiter_token", src |-> src, pos |-> pos])

ParseRows(body) == Rule([rule |-> "parse_rows", body |-> body])

ParseOptionalIndex(src, pos) ==
    Rule([rule |-> "parse_optional_index", src |-> src, pos |-> pos])

ConsumeEnvironmentBody(src, pos, name) ==
    Rule([rule |-> "consume_environment_body", src |-> src, pos |-> pos, name |-> name])

HandleCommand(src, pos, command) ==
    Rule([rule |-> "handle_command", src |-> src, pos |-> pos, name |-> command])

ResolveCommand(src, pos, name) ==
    Rule([rule |-> "command", src |-> src, pos |-> pos, name |-> name])

\* str::split on a pattern: the pieces between its non-overlapping matches.
RECURSIVE SplitOn(_, _)
SplitOn(s, pat) ==
    LET hits == {i \in 0..(Len(s) - Len(pat)) : StartsWithStr(s, i, pat)}
    IN  IF hits = {} THEN <<s>>
        ELSE LET i == CHOOSE h \in hits : \A j \in hits : h <= j
             IN  <<SubSeq(s, 1, i)>> \o SplitOn(SubSeq(s, i + Len(pat) + 1, Len(s)), pat)

RowSeparator == <<"\\", "\\">>
ColumnSeparator == <<"&">>

IterErr(e) == [st |-> "err", err |-> e]
IterGo(p, nodes) == [st |-> "continue", pos |-> p, nodes |-> nodes]

parse_atom(src, pos) ==
    IF pos >= Len(src)
    THEN ErrR(ParseError("unexpected end: missing script content"))
    ELSE LET ch == src[pos + 1] IN
         IF ch = "{" THEN ParseGroup(src, pos + 1, Some("}"))
         ELSE IF ch = "\\" THEN
            LET command == ParseCommand(src, pos + 1)
            IN  ResolveCommand(src, command.pos, command.name)
         ELSE OkR(Text(<<ch>>), pos + 1)

\* One iteration of the loop of parse_group, the cursor being before the end.
group_iter(src, pos, nodes, stop) ==
    LET ch == src[pos + 1] IN
    IF stop = Some(ch) THEN [st |-> "break", pos |-> pos + 1, nodes |-> nodes]
    ELSE IF ch = "{" THEN
        LET inner == ParseGroup(src, pos + 1, Some("}"))
        IN  IF inner.ok THEN IterGo(inner.pos, Append(nodes, inner.val))
            ELSE IterErr(inner.err)
    ELSE IF ch = "}" THEN IterErr(ParseError("unmatched closing brace"))
    ELSE IF ch \in {"^", "_"} THEN
        LET script == ParseAtom(src, pos + 1)
        IN  IF ~script.ok THEN IterErr(script.err)
            ELSE LET att == AttachScript(nodes, ch, script.val)
                 IN  IF att.ok THEN IterGo(script.pos, att.stack) ELSE IterErr(att.err)
    ELSE IF ch = "\\" THEN
        LET command == ParseCommand(src, pos + 1)
            r == ResolveCommand(src, command.pos, command.name)
        IN  IF r.ok THEN IterGo(r.pos, Append(nodes, r.val)) ELSE IterErr(r.err)
    ELSE
        LET seg == ParseTextSegment(src, pos)
        IN  IterGo(seg.pos, IF seg.text # <<>> THEN Append(nodes, Text(seg.text)) ELSE nodes)

\* parse_group(stop), entered with the children collected so far.
RECURSIVE ParseGroupFrom(_, _, _, _)
ParseGroupFrom(src, pos, nodes, stop) ==
    IF pos >= Len(src) THEN OkR(Group(MergeTextNodes(nodes)), pos)
    ELSE LET it == GroupIter(src, pos, nodes, stop)
         IN  CASE it.st = "break" -> OkR(Group(MergeTextNodes(it.nodes)), it.pos)
               [] it.st = "err" -> ErrR(it.err)
               [] OTHER -> ParseGroupFrom(src, it.pos, it.nodes, stop)

parse_block(src, pos, context) ==
    LET content == ConsumeBracedContent(src, pos, context) IN
    IF ~content.ok THEN content
    ELSE LET ast == ParseGroup(content.val, 0, None)
         IN  IF ~ast.ok THEN ast ELSE OkR(NormalizeGroupStatic(ast.val), content.pos)

\* parse::parse on a whole formula: the size guard is applied by the caller.
parse_formula(src) ==
    LET ast == ParseGroup(src, 0, None)
    IN  IF ~ast.ok THEN ast ELSE OkR(NormalizeGroupStatic(ast.val), ast.pos)

(***************************************************************************)
(* parse/rules/delimiters.rs                                               *)
(***************************************************************************)
DelimiterCommandToGlyph(name) ==
    CASE name = "langle" -> Some(Some(<<"<langle>">>))
      [] name = "rangle" -> Some(Some(<<"<rangle>">>))
      [] name = "lceil" -> Some(Some(<<"<lceil>">>))
      [] name = "rceil" -> Some(Some(<<"<rceil>">>))
      [] name = "lfloor" -> Some(Some(<<"<lfloor>">>))
      [] name = "rfloor" -> Some(Some(<<"<rfloor>">>))
      [] name = "lbrace" -> Some(Some(<<"{">>))
      [] name = "rbrace" -> Some(Some(<<"}">>))
      [] name \in {"lvert", "vert", "rvert"} -> Some(Some(<<"|">>))
      [] name \in {"lVert", "Vert", "rVert"} -> Some(Some(<<"<Vert>">>))
      [] name = "." -> Some(None)
      [] OTHER -> None

parse_delimiter_token(src, pos) ==
    IF pos >= Len(src) THEN ErrR(ParseError("missing delimiter"))
    ELSE LET ch == src[pos + 1] IN
         IF ch = "." THEN OkR(Delimiter(None), pos + 1)
         ELSE IF ch = "\\" THEN
            LET name == ParseCommand(src, pos + 1)
                glyph == DelimiterCommandToGlyph(Join(name.name))
            IN  IF glyph # None THEN OkR(Delimiter(glyph[1]), name.pos)
                ELSE ErrR(ParseErrorIn("unknown delimiter command", Join(name.name)))
         ELSE OkR(Delimiter(Some(<<ch>>)), pos + 1)

\* The loop of parse_delimited_expression after the left delimiter token.
RECURSIVE ParseDelimitedFrom(_, _, _, _)
ParseDelimitedFrom(src, pos, left, nodes) ==
    IF pos >= Len(src) THEN ErrR(ParseError("missing matching \\right"))
    ELSE LET ch == src[pos + 1] IN
    IF ch = "{" THEN
        LET inner == ParseGroup(src, pos + 1, Some("}"))
        IN  IF inner.ok THEN ParseDelimitedFrom(src, inner.pos, left, Append(nodes, inner.val))
            ELSE inner
    ELSE IF ch = "}" THEN ErrR(ParseError("unmatched closing brace"))
    ELSE IF ch \in {"^", "_"} THEN
        LET script == ParseAtom(src, pos + 1)
        IN  IF ~script.ok THEN script
            ELSE LET att == AttachScript(nodes, ch, script.val)
                 IN  IF att.ok THEN ParseDelimitedFrom(src, script.pos, left, att.stack)
                     ELSE ErrR(att.err)
    ELSE IF ch = "\\" THEN
        LET command == ParseCommand(src, pos + 1) IN
        IF Join(command.name) = "right" THEN
            LET right == ParseDelimiterToken(src, command.pos)
            IN  IF ~right.ok THEN right
                ELSE OkR(Delimited(left,
                                   NormalizeGroupStatic(Group(MergeTextNodes(nodes))),
                                   right.val),
                         right.pos)
        ELSE LET r == ResolveCommand(src, command.pos, command.name)
             IN  IF r.ok THEN ParseDelimitedFrom(src, r.pos, left, Append(nodes, r.val))
                 ELSE r
    ELSE
        LET seg == ParseTextSegment(src, pos)
        IN  ParseDelimitedFrom(src, seg.pos, left,
                IF seg.text # <<>> THEN Append(nodes, Text(seg.text)) ELSE nodes)

\* parse_delimited_expression closing its span at the end of the input.
ParseDelimitedToEnd(src, pos) ==
    LET left == ParseDelimiterToken(src, pos)
        span == IF left.ok THEN ParseDelimitedFrom(src, left.pos, left.val, <<>>) ELSE left
    IN  IF ~left.ok \/ span.ok \/ span.err # ParseError("missing matching \\right") THEN span
        ELSE OkR(Delimited(left.val, Group(<<>>), Delimiter(None)), Len(src))

ParseDelimitedExpression(src, pos) ==
    LET left == ParseDelimiterToken(src, pos)
    IN  IF ~left.ok THEN left ELSE ParseDelimitedFrom(src, left.pos, left.val, <<>>)


(***************************************************************************)
(* parse/rules/matrix.rs and parse/rules/environments.rs                   *)
(***************************************************************************)
\* The cells of one row: [ok, val] with val the parsed cells.
RECURSIVE ParseCellsFrom(_, _)
ParseCellsFrom(cells, done) ==
    IF cells = <<>> THEN [ok |-> TRUE, val |-> done]
    ELSE LET trimmed == Trim(Head(cells)) IN
         IF trimmed = <<>> THEN ParseCellsFrom(Tail(cells), Append(done, Text(<<>>)))
         ELSE LET ast == ParseGroup(trimmed, 0, None)
              IN  IF ~ast.ok THEN ast
                  ELSE ParseCellsFrom(Tail(cells), Append(done, NormalizeGroupStatic(ast.val)))

RECURSIVE ParseRowsFrom(_, _)
ParseRowsFrom(raw, rows) ==
    IF raw = <<>> THEN
        IF rows = <<>> THEN ErrR(ParseError("empty environment body"))
        ELSE [ok |-> TRUE, val |-> rows]
    ELSE LET trimmed == Trim(Head(raw)) IN
         IF trimmed = <<>> THEN ParseRowsFrom(Tail(raw), rows)
         ELSE LET cells == ParseCellsFrom(SplitOn(trimmed, ColumnSeparator), <<>>)
              IN  IF ~cells.ok THEN cells
                  ELSE ParseRowsFrom(Tail(raw), Append(rows, cells.val))

parse_rows(body) == ParseRowsFrom(SplitOn(body, RowSeparator), <<>>)

ParseMatrixCommand(src, pos) ==
    LET content == ConsumeBracedContent(src, pos, "matrix") IN
    IF ~content.ok THEN content
    ELSE LET rows == ParseRows(content.val)
         IN  IF ~rows.ok THEN rows ELSE OkR(Matrix(rows.val), content.pos)

BeginToken == <<"\\", "b", "e", "g", "i", "n", "{">>
EndToken == <<"\\", "e", "n", "d", "{">>

\* The loop of consume_environment_body.
RECURSIVE EnvironmentBodyFrom(_, _, _, _, _)
EnvironmentBodyFrom(src, pos, name, depth, body) ==
    IF pos >= Len(src) THEN ErrR(ParseErrorIn("unterminated environment", Join(name)))
    ELSE IF StartsWithStr(src, pos, BeginToken) THEN
        LET nested == ConsumeBracedContent(src, Advance(src, pos + 1, 5), "environment name")
        IN  IF ~nested.ok THEN nested
            ELSE EnvironmentBodyFrom(src, nested.pos, name,
                    IF nested.val = name THEN depth + 1 ELSE depth,
                    body \o <<"\\", "b", "e", "g", "i", "n", "{">> \o nested.val \o <<"}">>)
    ELSE IF StartsWithStr(src, pos, EndToken) THEN
        LET env == ConsumeBracedContent(src, Advance(src, pos + 1, 3), "environment name")
        IN  IF ~env.ok THEN env
            ELSE IF env.val = name /\ depth = 1 THEN OkR(body, env.pos)
            ELSE EnvironmentBodyFrom(src, env.pos, name,
                    IF env.val = name THEN depth - 1 ELSE depth,
                    body \o <<"\\", "e", "n", "d", "{">> \o env.val \o <<"}">>)
    ELSE EnvironmentBodyFrom(src, pos + 1, name, depth, Append(body, src[pos + 1]))

\* consume_environment_body with its depth counter starting at 2.
ConsumeEnvironmentBodyDeep(src, pos, name) == EnvironmentBodyFrom(src, pos, name, 2, <<>>)

consume_environment_body(src, pos, name) == EnvironmentBodyFrom(src, pos, name, 1, <<>>)

MakeDelimited(left, right, rows) ==
    Delimited(Delimiter(Some(left)), Matrix(rows), Delimiter(right))

\* The match of parse_environment with pmatrix among the bare matrices.
MatchEnvironmentBare(n, rows, pos) ==
    CASE n = "cases" -> OkR(MakeDelimited(<<"{">>, None, rows), pos)
      [] n \in {"aligned", "align", "array", "matrix", "pmatrix"} -> OkR(Matrix(rows), pos)
      [] n = "bmatrix" -> OkR(MakeDelimited(<<"[">>, Some(<<"]">>), rows), pos)
      [] n = "Bmatrix" -> OkR(MakeDelimited(<<"{">>, Some(<<"}">>), rows), pos)
      [] n = "vmatrix" -> OkR(MakeDelimited(<<"|">>, Some(<<"|">>), rows), pos)
      [] n = "Vmatrix" -> OkR(MakeDelimited(<<"<Vert>">>, Some(<<"<Vert>">>), rows), pos)
      [] OTHER -> ErrR(ParseErrorIn("unsupported environment", n))

\* The match of parse_environment on the name, the rows being parsed.
MatchEnvironment(n, rows, pos) ==
    CASE n = "cases" -> OkR(MakeDelimited(<<"{">>, None, rows), pos)
      [] n \in {"aligned", "align", "array", "matrix"} -> OkR(Matrix(rows), pos)
      [] n = "pmatrix" -> OkR(MakeDelimited(<<"(">>, Some(<<")">>), rows), pos)
      [] n = "bmatrix" -> OkR(MakeDelimited(<<"[">>, Some(<<"]">>), rows), pos)
      [] n = "Bmatrix" -> OkR(MakeDelimited(<<"{">>, Some(<<"}">>), rows), pos)
      [] n = "vmatrix" -> OkR(MakeDelimited(<<"|">>, Some(<<"|">>), rows), pos)
      [] n = "Vmatrix" -> OkR(MakeDelimited(<<"<Vert>">>, Some(<<"<Vert>">>), rows), pos)
      [] OTHER -> ErrR(ParseErrorIn("unsupported environment", n))

ParseEnvironment(src, pos) ==
    LET env == ConsumeBracedContent(src, pos, "environment name") IN
    IF ~env.ok THEN env
    ELSE LET body == ConsumeEnvironmentBody(src, env.pos, env.val) IN
    IF ~body.ok THEN body
    ELSE LET rows == ParseRows(body.val) IN
    IF ~rows.ok THEN rows
    ELSE MatchEnvironment(Join(env.val), rows.val, body.pos)

(***************************************************************************)
(* parse/rules/roots.rs, fractions.rs, decorations.rs, basic.rs, styles.rs *)
(***************************************************************************)
\* The loop of parse_optional_index after the opening bracket: the position
\* just after the closing bracket met at depth 0, or -1.
RECURSIVE IndexScan(_, _, _)
IndexScan(src, i, depth) ==
    IF i >= Len(src) THEN -1
    ELSE IF src[i + 1] = "[" THEN IndexScan(src, i + 1, depth + 1)
    ELSE IF src[i + 1] = "]" THEN
        IF depth = 0 THEN i + 1 ELSE IndexScan(src, i + 1, depth - 1)
    ELSE IndexScan(src, i + 1, depth)

\* OkR(Option<node>, pos) or an error.
parse_optional_index(src, pos) ==
    IF PeekChar(src, pos) # Some("[") THEN OkR(None, pos)
    ELSE LET end == IndexScan(src, pos + 1, 0) IN
         IF end = -1 THEN ErrR(ParseError("sqrt index missing bracket"))
         ELSE LET content == Trim(SubSeq(src, pos + 2, end - 1)) IN
              IF content = <<>> THEN OkR(None, end)
              ELSE LET ast == ParseGroup(content, 0, None)
                   IN  IF ~ast.ok THEN ast
                       ELSE OkR(Some(NormalizeGroupStatic(ast.val)), end)

HandleSqrt(src, pos) ==
    LET index == ParseOptionalIndex(src, pos) IN
    IF ~index.ok THEN index
    ELSE LET value == ParseBlock(src, index.pos, "sqrt body") IN
         IF ~value.ok THEN value
         ELSE IF index.val # None
              THEN OkR(Scripts(Sqrt(value.val), Some(index.val[1]), None), value.pos)
              ELSE OkR(Sqrt(value.val), value.pos)

HandleFrac(src, pos) ==
    LET numerator == ParseBlock(src, pos, "numerator") IN
    IF ~numerator.ok THEN numerator
    ELSE LET denominator == ParseBlock(src, numerator.pos, "denominator")
         IN  IF ~denominator.ok THEN denominator
             ELSE OkR(Fraction(numerator.val, denominator.val), denominator.pos)

HandleBinom(src, pos) ==
    LET top == ParseBlock(src, pos, "binom top") IN
    IF ~top.ok THEN top
    ELSE LET bottom == ParseBlock(src, top.pos, "binom bottom")
         IN  IF ~bottom.ok THEN bottom
             ELSE OkR(Delimited(Delimiter(Some(<<"(">>)),
                                Matrix(<< <<top.val>>, <<bottom.val>> >>),
                                Delimiter(Some(<<")">>))),
                      bottom.pos)

StackedArrow(name) ==
    CASE name = "xrightarrow" -> Some("<rightarrow>")
      [] name = "xleftarrow" -> Some("<leftarrow>")
      [] name = "xRightarrow" -> Some("<Rightarrow>")
      [] name = "xLeftarrow" -> Some("<Leftarrow>")
      [] name = "xLeftrightarrow" -> Some("<Leftrightarrow>")
      [] OTHER -> None

DecorationOf(name) ==
    CASE name = "overline" -> Some("Overline")
      [] name = "underline" -> Some("Underline")
      [] name = "hat" -> Some("Hat")
      [] name = "bar" -> Some("Bar")
      [] name = "tilde" -> Some("Tilde")
      [] name = "vec" -> Some("Vector")
      [] name = "dot" -> Some("Dot")
      [] name = "ddot" -> Some("Ddot")
      [] name = "overbrace" -> Some("Overbrace")
      [] name = "underbrace" -> Some("Underbrace")
      [] OTHER -> None

HandleStackedArrow(src, pos, arrow) ==
    LET label == ParseBlock(src, pos, "arrow label")
    IN  IF ~label.ok THEN label
        ELSE OkR(Scripts(Text(<<arrow>>), Some(label.val), None), label.pos)

HandleDecorated(src, pos, decoration) ==
    LET base == ParseBlock(src, pos, "decorated expression")
    IN  IF ~base.ok THEN base ELSE OkR(Decorated(base.val, decoration), base.pos)

HandleStyle(src, pos, style) ==
    LET base == ParseBlock(src, pos, "styled expression")
    IN  IF ~base.ok THEN base ELSE OkR(ApplyStyle(base.val, style), base.pos)

HandleTextBlock(src, pos) ==
    LET content == ConsumeBracedContent(src, pos, "text")
    IN  IF ~content.ok THEN content ELSE OkR(Text(content.val), content.pos)

\* rules::handle_command: the first structural handler that knows the name,
\* as Some(result), or None.
handle_command(src, pos, command) ==
    LET name == Join(command) IN
    CASE name = "text" -> Some(HandleTextBlock(src, pos))
      [] name = "displaystyle" -> Some(OkR(Group(<<>>), pos))
      [] name = "begin" -> Some(ParseEnvironment(src, pos))
      [] name = "frac" -> Some(HandleFrac(src, pos))
      [] name = "binom" -> Some(HandleBinom(src, pos))
      [] name = "sqrt" -> Some(HandleSqrt(src, pos))
      [] name = "left" -> Some(ParseDelimitedExpression(src, pos))
      [] name = "matrix" -> Some(ParseMatrixCommand(src, pos))
      [] StackedArrow(name) # None -> Some(HandleStackedArrow(src, pos, StackedArrow(name)[1]))
      [] DecorationOf(name) # None -> Some(HandleDecorated(src, pos, DecorationOf(name)[1]))
      [] StyleOf(name) # None -> Some(HandleStyle(src, pos, StyleOf(name)[1]))
      [] name = "sum" -> Some(OkR(Symbol("Sum"), pos))
      [] name = "prod" -> Some(OkR(Symbol("Product"), pos))
      [] name \in {"int", "oint"} -> Some(OkR(Symbol("Integral"), pos))
      [] IsLargeOperator(command) -> Some(OkR(BuildLargeOperator(command), pos))
      [] OTHER -> None

\* The chain tried for a command name by parse_group, parse_atom and the
\* delimited-expression loop: the structural handlers, the text commands,
\* the large operators, and last the name kept as text.
\* The name kept without the control marker.
UnknownCommandBare(name) == Text(name)

UnknownCommandNode(name) == Text(<<"\\">> \o name)

CommandChain(src, pos, name) ==
    LET handled == HandleCommand(src, pos, name) IN
    IF handled # None THEN handled[1]
    ELSE IF HandleTextCommand(name) # None THEN OkR(Text(HandleTextCommand(name)[1]), pos)
    ELSE IF IsLargeOperator(name) THEN OkR(BuildLargeOperator(name), pos)
    ELSE OkR(UnknownCommandNode(name), pos)

Rule(call) ==
    CASE call.rule = "parse" -> parse_formula(call.src)
      [] call.rule = "parse_group" -> ParseGroupFrom(call.src, call.pos, <<>>, call.stop)
      [] call.rule = "group_iter" -> group_iter(call.src, call.pos, call.nodes, call.stop)
      [] call.rule = "parse_atom" -> parse_atom(call.src, call.pos)
      [] call.rule = "parse_block" -> parse_block(call.src, call.pos, call.context)
      [] call.rule = "parse_delimiter_token" -> parse_delimiter_token(call.src, call.pos)
      [] call.rule = "parse_rows" -> parse_rows(call.body)
      [] call.rule = "parse_optional_index" -> parse_optional_index(call.src, call.pos)
      [] call.rule = "consume_environment_body" ->
            consume_environment_body(call.src, call.pos, call.name)
      [] call.rule = "handle_command" -> handle_command(call.src, call.pos, call.name)
      [] call.rule = "command" -> CommandChain(call.src, call.pos, call.name)


(***************************************************************************)
(* Layout (layout.rs).  A length is an integer number of millionths of a   *)
(* pixel and a factor is given in thousandths, so font_size * 0.7 is       *)
(* Scale(font_size, 700).  Every routine takes the thread's glyph-metrics  *)
(* cache and returns it with the box.                                      *)
(***************************************************************************)
Px(n) == n * 1000000

\* v * permille / 1000, the product kept within the integers of the checker.
Scale(v, permille) == (v \div 1000) * permille + ((v % 1000) * permille) \div 1000

\* a / b in thousandths.
PerMille(a, b) == a \div Max(b \div 1000, 1)

\* The embedded font as fontdue reports it: the advance and the ink bounds
\* of a glyph grow linearly with the size.
GlyphAdvance(ch) ==
    CASE ch \in {" ", "<thinsp>", "<hairsp>", "<medsp>", "<thicksp>", "<ensp>"} -> 250
      [] ch \in {"(", ")", "[", "]", "|", "{", "}", "."} -> 390
      [] OTHER -> 500

FontMetrics(ch, font_size) ==
    [advance_width |-> Scale(font_size, GlyphAdvance(ch)),
     xmin |-> Scale(font_size, 40),
     width |-> IF GlyphAdvance(ch) = 250 THEN 0
               ELSE Scale(font_size, GlyphAdvance(ch) - 100)]

\* (font_size * 100.0).round() as u32
Quantized(font_size) == (font_size + 5000) \div 10000

\* cached_metrics: [metrics, cache].
CachedMetrics(ch, font_size, cache) ==
    LET key == <<ch, Quantized(font_size)>> IN
    IF key \in DOMAIN cache THEN [metrics |-> cache[key], cache |-> cache]
    ELSE [metrics |-> FontMetrics(ch, font_size),
          cache |-> [k \in DOMAIN cache \cup {key} |->
                        IF k = key THEN FontMetrics(ch, font_size) ELSE cache[k]]]

GlyphItalicCorrection(metrics) ==
    IF metrics.width <= 0 THEN 0
    ELSE Max(metrics.advance_width - (metrics.xmin + metrics.width), 0)

\* (ascent, descent) of the font at a size.
LineMetrics(font_size) ==
    [ascent |-> Scale(font_size, 800), descent |-> Scale(font_size, 200)]

RenderItem(text, x, y, font_size) ==
    [text |-> text, x |-> x, y |-> y, font_size |-> font_size]
RenderLine(x1, y1, x2, y2, stroke_width) ==
    [x1 |-> x1, y1 |-> y1, x2 |-> x2, y2 |-> y2, stroke_width |-> stroke_width]

LayoutBox(width, height, baseline, policy, italic, items, lines) ==
    [width |-> width, height |-> height, baseline |-> baseline,
     script_policy |-> policy, italic_correction |-> italic,
     items |-> items, lines |-> lines]

OffsetItems(items, dx, dy) ==
    [i \in 1..Len(items) |-> [items[i] EXCEPT !.x = @ + dx, !.y = @ + dy]]
\* offset_lines moving the ends of a line along x only.
OffsetLinesAcross(lines, dx, dy) ==
    [i \in 1..Len(lines) |-> [lines[i] EXCEPT !.x1 = @ + dx, !.x2 = @ + dx]]

\* offset_lines.
OffsetLines(lines, dx, dy) ==
    [i \in 1..Len(lines) |->
        [lines[i] EXCEPT !.x1 = @ + dx, !.x2 = @ + dx, !.y1 = @ + dy, !.y2 = @ + dy]]

\* The loop over the characters of a string shared by layout_text,
\* make_delimiter_box and measure_text_width: [width, italic, cache].
RECURSIVE MeasureChars(_, _, _, _, _)
MeasureChars(content, font_size, cache, width, italic) ==
    IF content = <<>> THEN [width |-> width, italic |-> italic, cache |-> cache]
    ELSE LET m == CachedMetrics(Head(content), font_size, cache)
         IN  MeasureChars(Tail(content), font_size, m.cache,
                          width + m.metrics.advance_width,
                          GlyphItalicCorrection(m.metrics))

MeasureTextWidth(content, font_size, cache) ==
    MeasureChars(content, font_size, cache, 0, 0)

Boxed(box, cache) == [box |-> box, cache |-> cache]

LayoutText(content, font_size, cache) ==
    LET lm == LineMetrics(font_size)
        m == MeasureChars(content, font_size, cache, 0, 0)
    IN  Boxed(LayoutBox(m.width, lm.ascent + lm.descent, lm.ascent, "Right", m.italic,
                        <<RenderItem(content, 0, lm.ascent, font_size)>>, <<>>),
              m.cache)

SymbolGlyph(symbol) ==
    CASE symbol = "Sum" -> <<"<sum>", 1350>>
      [] symbol = "Product" -> <<"<prod>", 1350>>
      [] symbol = "Integral" -> <<"<int>", 1450>>

LayoutSymbol(symbol, font_size, cache) ==
    LET ch == SymbolGlyph(symbol)[1]
        display_size == Scale(font_size, SymbolGlyph(symbol)[2])
        lm == LineMetrics(display_size)
        m == CachedMetrics(ch, display_size, cache)
    IN  Boxed(LayoutBox(Max(m.metrics.advance_width, Scale(display_size, 600)),
                        lm.ascent + lm.descent, lm.ascent, "AboveBelow", 0,
                        <<RenderItem(<<ch>>, 0, lm.ascent, display_size)>>, <<>>),
              m.cache)

LayoutLargeOperator(node, font_size, cache) ==
    LET effective_size == Scale(font_size, node.scale)
        lm == LineMetrics(effective_size)
        m == MeasureTextWidth(node.content, effective_size, cache)
    IN  Boxed(LayoutBox(m.width, lm.ascent + lm.descent, lm.ascent, "AboveBelow", 0,
                        <<RenderItem(node.content, 0, lm.ascent, effective_size)>>, <<>>),
              m.cache)

MakeDelimiterBox(glyph, target_height, base_font_size, cache) ==
    LET base == LineMetrics(base_font_size)
        base_height == base.ascent + base.descent
        effective_size ==
            IF target_height <= base_height THEN base_font_size
            ELSE Scale(base_font_size, Min(PerMille(target_height, base_height), 3000))
        lm == LineMetrics(effective_size)
        m == MeasureChars(glyph, effective_size, cache, 0, 0)
    IN  Boxed(LayoutBox(m.width, lm.ascent + lm.descent, lm.ascent, "Right", m.italic,
                        <<RenderItem(glyph, 0, lm.ascent, effective_size)>>, <<>>),
              m.cache)


RECURSIVE SeqMax(_, _)
SeqMax(values, init) ==
    IF values = <<>> THEN init ELSE SeqMax(Tail(values), Max(init, Head(values)))

RECURSIVE SeqSum(_)
SeqSum(values) == IF values = <<>> THEN 0 ELSE Head(values) + SeqSum(Tail(values))

RECURSIVE Concat(_)
Concat(seqs) == IF seqs = <<>> THEN <<>> ELSE Head(seqs) \o Concat(Tail(seqs))

Below(box) == box.height - box.baseline

\* The box moved by (dx, dy): its items and its lines.
MovedItems(box, dx, dy) == OffsetItems(box.items, dx, dy)
MovedLines(box, dx, dy) == OffsetLines(box.lines, dx, dy)

\* layout_group with the height below the baseline as the whole height.
LayoutGroupBelowOnly(boxes, font_size, cache) ==
    IF boxes = <<>> THEN LayoutText(<<>>, font_size, cache)
    ELSE
    LET n == Len(boxes)
        spacing == Scale(font_size, 100)
        x == [i \in 1..n |->
                (i - 1) * spacing + SeqSum([j \in 1..(i - 1) |-> boxes[j].width])]
        baseline == SeqMax([i \in 1..n |-> boxes[i].baseline], 0)
        max_below == SeqMax([i \in 1..n |-> Below(boxes[i])], 0)
    IN  Boxed(LayoutBox(x[n] + boxes[n].width, max_below, baseline, "Right",
                        boxes[n].italic_correction,
                        Concat([i \in 1..n |->
                            MovedItems(boxes[i], x[i], baseline - boxes[i].baseline)]),
                        Concat([i \in 1..n |->
                            MovedLines(boxes[i], x[i], baseline - boxes[i].baseline)])),
              cache)

\* layout_group, the boxes of the children being laid out.
LayoutGroup(boxes, font_size, cache) ==
    IF boxes = <<>> THEN LayoutText(<<>>, font_size, cache)
    ELSE
    LET n == Len(boxes)
        spacing == Scale(font_size, 100)
        x == [i \in 1..n |->
                (i - 1) * spacing + SeqSum([j \in 1..(i - 1) |-> boxes[j].width])]
        baseline == SeqMax([i \in 1..n |-> boxes[i].baseline], 0)
        max_below == SeqMax([i \in 1..n |-> Below(boxes[i])], 0)
    IN  Boxed(LayoutBox(x[n] + boxes[n].width, baseline + max_below, baseline, "Right",
                        boxes[n].italic_correction,
                        Concat([i \in 1..n |->
                            MovedItems(boxes[i], x[i], baseline - boxes[i].baseline)]),
                        Concat([i \in 1..n |->
                            MovedLines(boxes[i], x[i], baseline - boxes[i].baseline)])),
              cache)

\* layout_fraction with a bar of 7% of the font size, however thin.
LayoutFractionThinBar(num_box, den_box, font_size, cache) ==
    LET padding == Scale(font_size, 250)
        gap == Scale(font_size, 200)
        line_thickness == Scale(font_size, 70)
        inner_width == Max(num_box.width, den_box.width)
        total_width == inner_width + padding * 2
        numerator_dx == padding + (inner_width - num_box.width) \div 2
        denominator_dx == padding + (inner_width - den_box.width) \div 2
        numerator_top == padding
        line_y == numerator_top + num_box.height + gap
        denominator_top == line_y + line_thickness + gap
    IN  Boxed(LayoutBox(total_width, denominator_top + den_box.height + padding,
                        denominator_top + den_box.baseline, "Right", 0,
                        MovedItems(num_box, numerator_dx, numerator_top)
                            \o MovedItems(den_box, denominator_dx, denominator_top),
                        MovedLines(num_box, numerator_dx, numerator_top)
                            \o MovedLines(den_box, denominator_dx, denominator_top)
                            \o <<RenderLine(padding, line_y + line_thickness \div 2,
                                            total_width - padding,
                                            line_y + line_thickness \div 2,
                                            line_thickness)>>),
              cache)

\* layout_fraction, the numerator and the denominator being laid out.
LayoutFraction(num_box, den_box, font_size, cache) ==
    LET padding == Scale(font_size, 250)
        gap == Scale(font_size, 200)
        line_thickness == Max(Scale(font_size, 70), Px(1))
        inner_width == Max(num_box.width, den_box.width)
        total_width == inner_width + padding * 2
        numerator_dx == padding + (inner_width - num_box.width) \div 2
        denominator_dx == padding + (inner_width - den_box.width) \div 2
        numerator_top == padding
        line_y == numerator_top + num_box.height + gap
        denominator_top == line_y + line_thickness + gap
    IN  Boxed(LayoutBox(total_width, denominator_top + den_box.height + padding,
                        denominator_top + den_box.baseline, "Right", 0,
                        MovedItems(num_box, numerator_dx, numerator_top)
                            \o MovedItems(den_box, denominator_dx, denominator_top),
                        MovedLines(num_box, numerator_dx, numerator_top)
                            \o MovedLines(den_box, denominator_dx, denominator_top)
                            \o <<RenderLine(padding, line_y + line_thickness \div 2,
                                            total_width - padding,
                                            line_y + line_thickness \div 2,
                                            line_thickness)>>),
              cache)

LayoutSqrt(inner_box, font_size, cache) ==
    LET padding == Scale(font_size, 150)
        symbol_width == Scale(font_size, 600)
        line_thickness == Max(Scale(font_size, 60), 800000)
        baseline == padding + inner_box.baseline
        total_height == padding * 2 + Max(inner_box.height, Scale(font_size, 1100))
        total_width == symbol_width + inner_box.width + padding
        bar_y == padding + line_thickness
    IN  Boxed(LayoutBox(total_width, total_height, baseline, "Right", 0,
                        <<RenderItem(<<"<sqrt>">>, 0, baseline, Scale(font_size, 1050))>>
                            \o MovedItems(inner_box, symbol_width, padding),
                        MovedLines(inner_box, symbol_width, padding)
                            \o <<RenderLine(symbol_width, bar_y, total_width, bar_y,
                                            line_thickness)>>),
              cache)

LayoutDelimited(left, inner_box, right, font_size, cache) ==
    LET lb == IF left.glyph # None
              THEN Some(MakeDelimiterBox(left.glyph[1], inner_box.height, font_size, cache))
              ELSE None
        cache1 == IF lb # None THEN lb[1].cache ELSE cache
        rb == IF right.glyph # None
              THEN Some(MakeDelimiterBox(right.glyph[1], inner_box.height, font_size, cache1))
              ELSE None
        cache2 == IF rb # None THEN rb[1].cache ELSE cache1
        sides == (IF lb # None THEN <<lb[1].box>> ELSE <<>>)
                    \o (IF rb # None THEN <<rb[1].box>> ELSE <<>>)
        max_above == SeqMax([i \in 1..Len(sides) |-> sides[i].baseline], inner_box.baseline)
        max_below == SeqMax([i \in 1..Len(sides) |-> Below(sides[i])], Below(inner_box))
        right_italic == IF rb # None THEN rb[1].box.italic_correction
                        ELSE inner_box.italic_correction
        baseline == max_above
        gap == Scale(font_size, 120)
        inner_x == IF lb # None THEN lb[1].box.width + gap ELSE 0
        right_x == inner_x + inner_box.width + (IF rb # None THEN gap ELSE 0)
    IN  Boxed(LayoutBox(right_x + (IF rb # None THEN rb[1].box.width ELSE 0),
                        max_above + max_below, baseline, inner_box.script_policy,
                        right_italic,
                        (IF lb # None
                            THEN MovedItems(lb[1].box, 0, baseline - lb[1].box.baseline)
                            ELSE <<>>)
                          \o MovedItems(inner_box, inner_x, baseline - inner_box.baseline)
                          \o (IF rb # None
                                THEN MovedItems(rb[1].box, right_x, baseline - rb[1].box.baseline)
                                ELSE <<>>),
                        MovedLines(inner_box, inner_x, baseline - inner_box.baseline)),
              cache2)


\* sup and sub are Option<LayoutBox>.
LayoutScriptsRight(base_box, sup, sub, font_size) ==
    LET spacing == Scale(font_size, 80)
        sup_raise == Scale(font_size, 750)
        sub_drop == Scale(font_size, 350)
        above == IF sup # None THEN Max(base_box.baseline, sup_raise + sup[1].height)
                 ELSE base_box.baseline
        below == IF sub # None THEN Max(Below(base_box), sub_drop + sub[1].height)
                 ELSE Below(base_box)
        baseline == above
        sup_width == IF sup # None THEN sup[1].width ELSE 0
        sub_width == IF sub # None THEN sub[1].width ELSE 0
        scripts_width == Max(sup_width, sub_width)
        anchor_x == Max(base_box.width - base_box.italic_correction, 0)
        total_width == IF scripts_width > 0 THEN anchor_x + spacing + scripts_width
                       ELSE base_box.width
        dx == anchor_x + spacing
    IN  LayoutBox(total_width, above + below, baseline, "Right",
                  base_box.italic_correction,
                  MovedItems(base_box, 0, baseline - base_box.baseline)
                    \o (IF sup # None
                        THEN MovedItems(sup[1], dx, baseline - sup_raise - sup[1].baseline)
                        ELSE <<>>)
                    \o (IF sub # None
                        THEN MovedItems(sub[1], dx, baseline + sub_drop - sub[1].baseline)
                        ELSE <<>>),
                  MovedLines(base_box, 0, baseline - base_box.baseline)
                    \o (IF sup # None
                        THEN MovedLines(sup[1], dx, baseline - sup_raise - sup[1].baseline)
                        ELSE <<>>)
                    \o (IF sub # None
                        THEN MovedLines(sub[1], dx, baseline + sub_drop - sub[1].baseline)
                        ELSE <<>>))

LayoutScriptsVertical(base_box, sup, sub, font_size) ==
    LET sup_gap == IF sup # None THEN Scale(font_size, 200) ELSE 0
        sub_gap == IF sub # None THEN Scale(font_size, 200) ELSE 0
        sup_height == IF sup # None THEN sup[1].height ELSE 0
        total_width == Max(Max(base_box.width, IF sup # None THEN sup[1].width ELSE 0),
                           IF sub # None THEN sub[1].width ELSE 0)
        base_offset == IF sup # None THEN sup[1].height + sup_gap ELSE 0
        base_dx == Max(total_width - base_box.width, 0) \div 2
        sub_y == base_offset + base_box.height + sub_gap
    IN  LayoutBox(total_width,
                  base_offset + base_box.height
                    + (IF sub # None THEN sub_gap + sub[1].height ELSE 0),
                  sup_height + sup_gap + base_box.baseline,
                  base_box.script_policy, base_box.italic_correction,
                  (IF sup # None
                    THEN MovedItems(sup[1], Max(total_width - sup[1].width, 0) \div 2, 0)
                    ELSE <<>>)
                    \o MovedItems(base_box, base_dx, base_offset)
                    \o (IF sub # None
                        THEN MovedItems(sub[1], Max(total_width - sub[1].width, 0) \div 2, sub_y)
                        ELSE <<>>),
                  (IF sup # None
                    THEN MovedLines(sup[1], Max(total_width - sup[1].width, 0) \div 2, 0)
                    ELSE <<>>)
                    \o MovedLines(base_box, base_dx, base_offset)
                    \o (IF sub # None
                        THEN MovedLines(sub[1], Max(total_width - sub[1].width, 0) \div 2, sub_y)
                        ELSE <<>>))

\* layout_scripts placing the scripts to the right whatever the base is.
LayoutScriptsAlwaysRight(base_box, sup_box, sub_box, font_size, cache) ==
    Boxed(LayoutScriptsRight(base_box, sup_box, sub_box, font_size), cache)

\* layout_scripts, the base and the scripts being laid out.
LayoutScripts(base_box, sup_box, sub_box, font_size, cache) ==
    Boxed(IF base_box.script_policy = "Right"
          THEN LayoutScriptsRight(base_box, sup_box, sub_box, font_size)
          ELSE LayoutScriptsVertical(base_box, sup_box, sub_box, font_size),
          cache)

\* The accent drawn as a glyph over the base: (glyph, size factor, raise factor).
AccentGlyph(decoration) ==
    CASE decoration = "Hat" -> <<"^", 700, 600>>
      [] decoration = "Tilde" -> <<"~", 700, 600>>
      [] decoration = "Vector" -> <<"<rightarrow>", 700, 600>>
      [] decoration = "Dot" -> <<"<middot>", 600, 500>>
      [] decoration = "Ddot" -> <<"<middot>", 550, 500>>

LayoutDecorated(base_box, decoration, font_size, cache) ==
    LET line_thickness == Max(Scale(font_size, 50), 800000)
        under == decoration \in {"Underline", "Underbrace"}
        padding_top == IF under THEN Scale(font_size, 50) ELSE Scale(font_size, 250)
        padding_bottom == IF under THEN Scale(font_size, 250) ELSE Scale(font_size, 50)
        over_y == Max(padding_top - line_thickness \div 2, line_thickness \div 2)
        under_y == padding_top + base_box.height + line_thickness \div 2
        accent == decoration \in {"Hat", "Tilde", "Vector", "Dot", "Ddot"}
        glyph == AccentGlyph(decoration)
        accent_size == Scale(font_size, glyph[2])
        m == IF accent THEN MeasureTextWidth(<<glyph[1]>>, accent_size, cache)
             ELSE [width |-> 0, italic |-> 0, cache |-> cache]
        accent_y == Max(Scale(padding_top, glyph[3]), LineMetrics(accent_size).ascent)
        spacing == Max(m.width, Scale(font_size, 200))
        center == base_box.width \div 2
        marks ==
            IF ~accent THEN <<>>
            ELSE IF decoration = "Ddot" THEN
                <<RenderItem(<<glyph[1]>>, center - spacing \div 2 - m.width \div 2,
                             accent_y, accent_size),
                  RenderItem(<<glyph[1]>>, center + spacing \div 2 - m.width \div 2,
                             accent_y, accent_size)>>
            ELSE <<RenderItem(<<glyph[1]>>, (base_box.width - m.width) \div 2,
                              accent_y, accent_size)>>
        rule ==
            IF decoration \in {"Overline", "Bar", "Overbrace"}
            THEN <<RenderLine(0, over_y, base_box.width, over_y, line_thickness)>>
            ELSE IF under
            THEN <<RenderLine(0, under_y, base_box.width, under_y, line_thickness)>>
            ELSE <<>>
    IN  Boxed(LayoutBox(base_box.width, padding_top + base_box.height + padding_bottom,
                        padding_top + base_box.baseline, base_box.script_policy,
                        base_box.italic_correction,
                        MovedItems(base_box, 0, padding_top) \o marks,
                        MovedLines(base_box, 0, padding_top) \o rule),
              m.cache)


ColumnCount(rows) == SeqMax([r \in 1..Len(rows) |-> Len(rows[r])], 0)

\* layout_matrix, boxes being the boxes of the cells, row after row.
LayoutMatrix(rows, boxes, font_size, cache) ==
    LET col_count == ColumnCount(rows) IN
    IF rows = <<>> \/ col_count = 0 THEN LayoutText(<<>>, font_size, cache)
    ELSE
    LET n == Len(rows)
        first == [r \in 1..n |-> SeqSum([j \in 1..(r - 1) |-> Len(rows[j])])]
        cell_boxes == [r \in 1..n |-> [c \in 1..Len(rows[r]) |-> boxes[first[r] + c]]]
        column_widths ==
            [c \in 1..col_count |->
                SeqMax([r \in 1..n |->
                            IF c <= Len(cell_boxes[r]) THEN cell_boxes[r][c].width ELSE 0],
                       0)]
        col_gap == Scale(font_size, 400)
        row_gap == Scale(font_size, 350)
        cell_padding == Scale(font_size, 250)
        above == [r \in 1..n |->
                    SeqMax([c \in 1..Len(cell_boxes[r]) |-> cell_boxes[r][c].baseline], 0)]
        below == [r \in 1..n |->
                    SeqMax([c \in 1..Len(cell_boxes[r]) |-> Below(cell_boxes[r][c])], 0)]
        col_offsets == [c \in 1..col_count |->
                            SeqSum([j \in 1..(c - 1) |-> column_widths[j] + col_gap])]
        inner_width == SeqSum(column_widths) + (col_count - 1) * col_gap
        row_y == [r \in 1..n |-> SeqSum([j \in 1..(r - 1) |-> above[j] + below[j] + row_gap])]
        content_height ==
            SeqSum([r \in 1..n |-> above[r] + below[r]]) + (n - 1) * row_gap
        total_height == content_height + cell_padding * 2
        hook_length == Scale(font_size, 350)
        bracket_stroke == Max(Scale(font_size, 60), Px(1))
        side_padding == hook_length + bracket_stroke
        total_width == inner_width + side_padding * 2
        cell_dx(r, c) == col_offsets[c] + (column_widths[c] - cell_boxes[r][c].width) \div 2
        cell_dy(r, c) == row_y[r] + above[r] - cell_boxes[r][c].baseline
        items == Concat([r \in 1..n |->
                    Concat([c \in 1..Len(cell_boxes[r]) |->
                        MovedItems(cell_boxes[r][c], cell_dx(r, c), cell_dy(r, c))])])
        lines == Concat([r \in 1..n |->
                    Concat([c \in 1..Len(cell_boxes[r]) |->
                        MovedLines(cell_boxes[r][c], cell_dx(r, c), cell_dy(r, c))])])
        left_x == bracket_stroke \div 2
        right_x == total_width - bracket_stroke \div 2
    IN  Boxed(LayoutBox(total_width, total_height, cell_padding + content_height \div 2,
                        "Right", 0,
                        OffsetItems(items, side_padding, cell_padding),
                        OffsetLines(lines, side_padding, cell_padding)
                          \o <<RenderLine(left_x, 0, left_x, total_height, bracket_stroke),
                               RenderLine(left_x, 0, left_x + hook_length, 0, bracket_stroke),
                               RenderLine(left_x, total_height, left_x + hook_length,
                                          total_height, bracket_stroke),
                               RenderLine(right_x, 0, right_x, total_height, bracket_stroke),
                               RenderLine(right_x, 0, right_x - hook_length, 0, bracket_stroke),
                               RenderLine(right_x, total_height, right_x - hook_length,
                                          total_height, bracket_stroke)>>),
              cache)

\* The calls of layout_node that layout_node(node, font_size) makes, in
\* order: the node and the font size of each.
NodesToLayout(node, font_size) ==
    LET at(n) == [node |-> n, font_size |-> font_size]
        script(n) == [node |-> n, font_size |-> Scale(font_size, 700)]
    IN  CASE node.type = "Group" -> [i \in 1..Len(node.children) |-> at(node.children[i])]
          [] node.type = "Fraction" -> <<at(node.numerator), at(node.denominator)>>
          [] node.type = "Sqrt" -> <<at(node.value)>>
          [] node.type = "Delimited" -> <<at(node.inner)>>
          [] node.type = "Matrix" ->
                IF ColumnCount(node.rows) = 0 THEN <<>>
                ELSE Concat([r \in 1..Len(node.rows) |->
                        [c \in 1..Len(node.rows[r]) |-> at(node.rows[r][c])]])
          [] node.type = "Decorated" -> <<at(node.base)>>
          [] node.type = "Scripts" ->
                <<at(node.base)>>
                    \o [i \in 1..Len(node.superscript) |-> script(node.superscript[i])]
                    \o [i \in 1..Len(node.subscript) |-> script(node.subscript[i])]
          [] OTHER -> <<>>

\* layout_node once the calls it makes have returned boxes: [box, cache].
LayoutNode(node, font_size, boxes, cache) ==
    CASE node.type = "Text" -> LayoutText(node.content, font_size, cache)
      [] node.type = "Group" -> LayoutGroup(boxes, font_size, cache)
      [] node.type = "Fraction" -> LayoutFraction(boxes[1], boxes[2], font_size, cache)
      [] node.type = "Sqrt" -> LayoutSqrt(boxes[1], font_size, cache)
      [] node.type = "Delimited" ->
            LayoutDelimited(node.left, boxes[1], node.right, font_size, cache)
      [] node.type = "LargeOperator" -> LayoutLargeOperator(node, font_size, cache)
      [] node.type = "Matrix" -> LayoutMatrix(node.rows, boxes, font_size, cache)
      [] node.type = "Decorated" ->
            LayoutDecorated(boxes[1], node.decoration, font_size, cache)
      [] node.type = "Scripts" ->
            LayoutScripts(boxes[1],
                          SubSeq(boxes, 2, 1 + Len(node.superscript)),
                          SubSeq(boxes, 2 + Len(node.superscript), Len(boxes)),
                          font_size, cache)
      [] node.type = "Symbol" -> LayoutSymbol(node.symbol, font_size, cache)

\* init::default_font_size, in pixels.
DefaultFontSize == 28

\* layout after layout_node on the root: the plan.
Layout(root_box) ==
    LET padding == Scale(Px(DefaultFontSize), 200)
    IN  [width |-> root_box.width + padding * 2,
         height |-> root_box.height + padding * 2,
         items |-> OffsetItems(root_box.items, padding, padding),
         lines |-> OffsetLines(root_box.lines, padding, padding)]

(***************************************************************************)
(* Serialization (render.rs) and output mode (config.rs).  The document is *)
(* kept as the record of its formatted fields, in document order.          *)
(***************************************************************************)
\* {:.2} of a length: hundredths of a pixel, rounded.
Fmt2(v) == (v + 5000) \div 10000

EscapeChar(ch) ==
    CASE ch = "&" -> <<"&", "a", "m", "p", ";">>
      [] ch = "<" -> <<"&", "l", "t", ";">>
      [] ch = ">" -> <<"&", "g", "t", ";">>
      [] ch = "\"" -> <<"&", "q", "u", "o", "t", ";">>
      [] ch = "'" -> <<"&", "a", "p", "o", "s", ";">>
      [] OTHER -> <<ch>>

EscapeText(input) == Concat([i \in 1..Len(input) |-> EscapeChar(input[i])])

BuildBaseSvg(plan) ==
    [width |-> Fmt2(Max(plan.width, Px(1))),
     height |-> Fmt2(Max(plan.height, Px(1))),
     lines |-> [i \in 1..Len(plan.lines) |->
                    [x1 |-> Fmt2(plan.lines[i].x1), y1 |-> Fmt2(plan.lines[i].y1),
                     x2 |-> Fmt2(plan.lines[i].x2), y2 |-> Fmt2(plan.lines[i].y2),
                     stroke_width |-> Fmt2(plan.lines[i].stroke_width)]],
     items |-> [i \in 1..Len(plan.items) |->
                    [x |-> Fmt2(plan.items[i].x), y |-> Fmt2(plan.items[i].y),
                     font_size |-> Fmt2(plan.items[i].font_size),
                     text |-> EscapeText(plan.items[i].text)]]]

\* svg_text_mode: the override if there is one (1: Text, 2: Paths), else the
\* default read from the environment.
\* svg_text_mode that knows the override to Text only.
SvgTextModeTextOnly(mode_override, env_default) ==
    CASE mode_override = 1 -> "Text"
      [] OTHER -> env_default

\* config::svg_text_mode.
SvgTextMode(mode_override, env_default) ==
    CASE mode_override = 1 -> "Text"
      [] mode_override = 2 -> "Paths"
      [] OTHER -> env_default

\* Characters the XML reader of usvg refuses.
NonXmlChars == {"<ctl>"}

UsvgAccepts(svg) ==
    \A i \in 1..Len(svg.items) :
        \A k \in 1..Len(svg.items[i].text) : svg.items[i].text[k] \notin NonXmlChars

\* render_svg_document: [ok, val] or [ok, err].
RenderSvgDocument(plan, mode) ==
    LET base_svg == BuildBaseSvg(plan) IN
    IF mode = "Text" THEN [ok |-> TRUE, val |-> [text_svg |-> base_svg]]
    ELSE IF ~UsvgAccepts(base_svg) THEN ErrR(RenderFailure)
    ELSE [ok |-> TRUE, val |-> [path_svg |-> base_svg]]

(***************************************************************************)
(* Escape normalization (lib.rs).  The routine works on the bytes of the   *)
(* string: an ASCII character is its own byte, any other character is two  *)
(* bytes named after it.                                                   *)
(***************************************************************************)
IsAscii(ch) == Len(ch) = 1

Utf8(ch) == IF IsAscii(ch) THEN <<ch>> ELSE <<ch \o "#1", ch \o "#2">>

Utf8Bytes(s) ==
    IF \A i \in 1..Len(s) : IsAscii(s[i]) THEN s
    ELSE Concat([i \in 1..Len(s) |-> Utf8(s[i])])

\* str::len
ByteLen(s) == Len(s) + Cardinality({i \in 1..Len(s) : ~IsAscii(s[i])})

\* `byte as char`
ByteAsChar(b) == IF IsAscii(b) THEN b ELSE "<u+" \o b \o ">"

\* The inner loop of normalize_escaped_commands, from byte idx (0-based).
RECURSIVE NormalizeRest(_, _, _)
NormalizeRest(bytes, idx, output) ==
    IF idx >= Len(bytes) THEN output
    ELSE IF /\ bytes[idx + 1] = "\\"
            /\ idx + 1 < Len(bytes)
            /\ bytes[idx + 2] = "\\"
            /\ idx + 2 < Len(bytes)
            /\ IsAsciiAlphabetic(bytes[idx + 3])
         THEN NormalizeRest(bytes, idx + 2, Append(output, "\\"))
         ELSE NormalizeRest(bytes, idx + 1, Append(output, ByteAsChar(bytes[idx + 1])))

NormalizeEscapedCommands(input) ==
    LET bytes == Utf8Bytes(input)
        hits == {idx \in 0..(Len(bytes) - 2) :
                    /\ bytes[idx + 1] = "\\"
                    /\ bytes[idx + 2] = "\\"
                    /\ idx + 2 < Len(bytes)
                    /\ IsAsciiAlphabetic(bytes[idx + 3])}
    IN  IF hits = {} THEN input
        ELSE LET idx == CHOOSE h \in hits : \A j \in hits : h <= j
                 prefix == CHOOSE k \in 0..Len(input) : ByteLen(SubSeq(input, 1, k)) = idx
             IN  NormalizeRest(bytes, idx + 2, Append(SubSeq(input, 1, prefix), "\\"))


(***************************************************************************)
(* The pipeline (lib.rs, parse/mod.rs).                                    *)
(***************************************************************************)
\* The size limit of parse::parse, in bytes.
MaxFormulaBytes == 5120

\* parse::parse: the guard, then the grammar.  A &str always ends on a
\* character boundary, so the InvalidUtf8 branch is never taken.
Parse(input) ==
    IF ByteLen(input) > MaxFormulaBytes THEN ErrR(ParseError("formula exceeds 5KB limit"))
    ELSE ParseFormula(input)

\* FONT_ASSETS: the embedded font parses, as the tests of the crate rely on.
FontAssetsLoaded == TRUE

EmptyCache == [k \in {} |-> 0]

\* What the closure under catch_unwind came to: a value, a stage's error, or
\* a panic.
Completed(val) == [kind |-> "ok", val |-> val]
Failed(err) == [kind |-> "err", err |-> err]
Panicked == [kind |-> "panic"]

\* A match on guarded_result that takes a panic for a failure of the renderer.
GuardedResultBlind(guarded) ==
    CASE guarded.kind = "ok" -> [ok |-> TRUE, val |-> guarded.val]
      [] guarded.kind = "err" -> ErrR(guarded.err)
      [] guarded.kind = "panic" -> ErrR(RenderFailure)

\* The match on guarded_result.
GuardedResult(guarded) ==
    CASE guarded.kind = "ok" -> [ok |-> TRUE, val |-> guarded.val]
      [] guarded.kind = "err" -> ErrR(guarded.err)
      [] guarded.kind = "panic" -> ErrR(UnexpectedPanic)

(***************************************************************************)
(* State.                                                                  *)
(*   tex, pc         the argument of the running render_formula call and   *)
(*                   the stage the call is at                              *)
(*   text, pos       the parser: its input and its cursor                  *)
(*   frames          the calls of parse_group in progress, innermost last: *)
(*                   the children collected, the stop character, and what  *)
(*                   the caller does with the group ("root": parse,        *)
(*                   "brace": the brace branch of parse_group, "^" or "_": *)
(*                   the script branch through parse_atom)                 *)
(*   ast             what parse returned (Option)                          *)
(*   work            the calls of layout_node in progress, innermost last: *)
(*                   the node, the font size and the boxes of the calls it *)
(*                   has made (refs: on the reference thread)              *)
(*   plan            what layout returned (Option)                         *)
(*   rendered        the call of layout_node that returned last: its node, *)
(*                   its font size, the boxes of the calls it made and the *)
(*                   box it returned (Option)                              *)
(*   guarded         what the closure under catch_unwind came to (Option)  *)
(*   result          what render_formula returned (Option)                 *)
(*   cache           METRICS_CACHE of the calling thread                   *)
(*   fresh, refplan, reference                                             *)
(*                   the same call run in step on a thread that has laid   *)
(*                   out nothing before: its METRICS_CACHE, its plan and   *)
(*                   what it returns (Option)                              *)
(*   mode            the mode render_svg_document read (Option)            *)
(*   modeOverride    MODE_OVERRIDE; envDefault is ENV_DEFAULT; requested   *)
(*                   is the argument of the last call of                   *)
(*                   override_svg_text_mode (Option)                       *)
(*   calls           number of calls made so far                           *)
(*   stages          the stages the running call has entered               *)
(*   texts, results  the argument of render_formula_batch and the slots of *)
(*                   its result; alone is what render_formula gives for    *)
(*                   each item alone; workerCache is METRICS_CACHE of each *)
(*                   pool thread; item and worker are the item being       *)
(*                   rendered and the thread rendering it; batchOut is     *)
(*                   what the batch call returned (Option)                 *)
(*   nin, once, twice  an input of normalize_escaped_commands and the      *)
(*                   outputs of one and of two passes                      *)
(*   envName, envBody  the name parse_environment has read and the body    *)
(*                   consume_environment_body has returned (Options)       *)
(*   styleBase       what parse_block returned to handle_style (Option)    *)
(*   ffiIn, ffiOut   the argument of the extern render_svg and the string  *)
(*                   it returned (Options)                                 *)
(*   scanned         the last operation of a scanner used alone and the    *)
(*                   indices of `source` it read (Option)                  *)
(***************************************************************************)
VARIABLES tex, pc, text, pos, frames, ast, work, plan, guarded, result, cache,
          fresh, refplan, reference, mode, rendered,
          modeOverride, envDefault, requested, calls, stages,
          texts, results, alone, workerCache, item, worker, batchOut,
          nin, once, twice,
          envName, envBody,
          styleBase,
          ffiIn, ffiOut,
          scanned

parserVars == <<text, pos, frames, ast>>
layoutVars == <<work, plan, refplan, rendered>>
callVars == <<tex, pc, parserVars, layoutVars, guarded, result, reference, mode, stages>>
threadVars == <<cache, fresh, calls>>
configVars == <<modeOverride, envDefault, requested>>
batchVars == <<texts, results, alone, workerCache, item, worker, batchOut>>
normVars == <<nin, once, twice>>
envVars == <<envName, envBody>>
styleVars == <<styleBase>>
ffiVars == <<ffiIn, ffiOut>>
scanVars == <<scanned>>
unitVars == <<normVars, envVars, styleVars, ffiVars, scanVars>>
vars == <<callVars, threadVars, configVars, batchVars, unitVars>>

\* Bounds of the model.
MaxCalls == 2
MaxDepth == 21
MaxTokens == 5
MaxCommands == 3
MaxBatch == 2
MaxWorkers == 2
MaxNormLen == 4
MaxEnvTokens == 4
MaxDelimTokens == 5

\* Stages of a call that run under catch_unwind.
GuardedStages == {"guard", "group", "layout", "serialize"}

Frame(stop, via) == [nodes |-> <<>>, stop |-> stop, via |-> via]

Work(node, font_size) ==
    [node |-> node, font_size |-> font_size, boxes |-> <<>>, refs |-> <<>>]

(***************************************************************************)
(* render_formula, stage by stage.                                         *)
(***************************************************************************)
\* The entry of render_formula(t) on the thread whose cache is `cache`.
Enter(t) ==
    /\ tex' = t
    /\ pc' = "fonts"
    /\ text' = <<>>
    /\ pos' = 0
    /\ frames' = <<>>
    /\ ast' = None
    /\ work' = <<>>
    /\ plan' = None
    /\ refplan' = None
    /\ rendered' = None
    /\ guarded' = None
    /\ result' = None
    /\ reference' = None
    /\ mode' = None
    /\ stages' = {}
    /\ fresh' = EmptyCache

Call(t) ==
    /\ pc \in {"idle", "returned"}
    /\ calls < MaxCalls
    /\ Enter(t)
    /\ calls' = calls + 1
    /\ UNCHANGED <<cache, configVars, batchVars, unitVars>>

\* init::ensure_fonts_loaded()?
EnsureFonts ==
    /\ pc = "fonts"
    /\ IF FontAssetsLoaded
       THEN pc' = "trim" /\ UNCHANGED <<result, reference>>
       ELSE /\ pc' = "returned"
            /\ result' = Some(ErrR(FontLoadError))
            /\ reference' = Some(ErrR(FontLoadError))
    /\ UNCHANGED <<tex, parserVars, layoutVars, guarded, mode, stages,
                   threadVars, configVars, batchVars, unitVars>>

\* tex.trim() and the EmptyInput return.
TrimCheck ==
    /\ pc = "trim"
    /\ IF Trim(tex) = <<>>
       THEN /\ pc' = "returned"
            /\ result' = Some(ErrR(EmptyInput))
            /\ reference' = Some(ErrR(EmptyInput))
            /\ UNCHANGED text
       ELSE /\ pc' = "normalize"
            /\ text' = Trim(tex)
            /\ UNCHANGED <<result, reference>>
    /\ UNCHANGED <<tex, pos, frames, ast, layoutVars, guarded, mode, stages,
                   threadVars, configVars, batchVars, unitVars>>

Normalize ==
    /\ pc = "normalize"
    /\ text' = NormalizeEscapedCommands(text)
    /\ stages' = stages \cup {"normalize"}
    /\ pc' = "guard"
    /\ UNCHANGED <<tex, pos, frames, ast, layoutVars, guarded, result, reference, mode,
                   threadVars, configVars, batchVars, unitVars>>

\* A stage returned Err(err): the closure ends with it, as it does on the
\* reference thread.
StageFails(err) ==
    /\ guarded' = Some(Failed(err))
    /\ reference' = Some(ErrR(err))
    /\ pc' = "boundary"

\* parse::parse up to the call of parse_group(None).
ParseGuard ==
    /\ pc = "guard"
    /\ stages' = stages \cup {"guard"}
    /\ IF ByteLen(text) > MaxFormulaBytes
       THEN /\ StageFails(ParseError("formula exceeds 5KB limit"))
            /\ UNCHANGED frames
       ELSE /\ pc' = "group"
            /\ frames' = <<Frame(None, "root")>>
            /\ UNCHANGED <<guarded, reference>>
    /\ pos' = 0
    /\ UNCHANGED <<tex, text, ast, layoutVars, result, mode,
                   threadVars, configVars, batchVars, unitVars>>

\* The innermost parse_group is at its stop character or at the end of the
\* input.
GroupEnds ==
    IF pos >= Len(text) THEN TRUE
    ELSE frames[Len(frames)].stop = Some(text[pos + 1])

\* The cursor is before a brace that opens a nested parse_group: the brace
\* branch of parse_group, or its script branch and the brace branch of
\* parse_atom.  The value is the way in, or None.
GroupOpens ==
    IF text[pos + 1] = "{" THEN Some("brace")
    ELSE IF /\ text[pos + 1] \in {"^", "_"}
            /\ pos + 1 < Len(text)
            /\ text[pos + 2] = "{"
         THEN Some(text[pos + 1])
         ELSE None

\* The call of parse_group(Some('}')).
GroupEnter ==
    /\ pc = "group"
    /\ ~GroupEnds
    /\ GroupOpens # None
    /\ stages' = stages \cup {"parse_group"}
    /\ frames' = Append(frames, Frame(Some("}"), GroupOpens[1]))
    /\ pos' = IF GroupOpens[1] = "brace" THEN pos + 1 ELSE pos + 2
    /\ UNCHANGED <<tex, pc, text, ast, layoutVars, guarded, result, reference, mode,
                   threadVars, configVars, batchVars, unitVars>>

\* One iteration of the loop of the innermost parse_group that calls no
\* parse_group(Some('}')) from parse_group or parse_atom itself.
GroupStep ==
    /\ pc = "group"
    /\ ~GroupEnds
    /\ GroupOpens = None
    /\ stages' = stages \cup {"parse_group"}
    /\ \E it \in {GroupIter(text, pos, frames[Len(frames)].nodes, frames[Len(frames)].stop)} :
       IF it.st = "err"
       THEN /\ StageFails(it.err)
            /\ UNCHANGED <<pos, frames>>
       ELSE /\ pos' = it.pos
            /\ frames' = [frames EXCEPT ![Len(frames)].nodes = it.nodes]
            /\ UNCHANGED <<pc, guarded, reference>>
    /\ UNCHANGED <<tex, text, ast, layoutVars, result, mode,
                   threadVars, configVars, batchVars, unitVars>>

\* The return of a nested parse_group to the branch that called it.
GroupReturn ==
    /\ pc = "group"
    /\ GroupEnds
    /\ Len(frames) > 1
    /\ stages' = stages \cup {"parse_group"}
    /\ LET done == frames[Len(frames)]
           group == Group(MergeTextNodes(done.nodes))
           caller == frames[Len(frames) - 1]
           att == IF done.via = "brace"
                  THEN [ok |-> TRUE, stack |-> Append(caller.nodes, group)]
                  ELSE AttachScript(caller.nodes, done.via, group)
       IN  IF att.ok
           THEN /\ frames' = [SubSeq(frames, 1, Len(frames) - 1)
                                EXCEPT ![Len(frames) - 1].nodes = att.stack]
                /\ pos' = IF pos >= Len(text) THEN pos ELSE pos + 1
                /\ UNCHANGED <<pc, guarded, reference>>
           ELSE /\ StageFails(att.err)
                /\ UNCHANGED <<pos, frames>>
    /\ UNCHANGED <<tex, text, ast, layoutVars, result, mode,
                   threadVars, configVars, batchVars, unitVars>>

\* The return of parse_group(None) and normalize_group in parse::parse; then
\* layout::layout calls layout_node on the root.
ParseFinish ==
    /\ pc = "group"
    /\ GroupEnds
    /\ Len(frames) = 1
    /\ stages' = stages \cup {"parse_group"}
    /\ \E root \in {NormalizeGroupStatic(Group(MergeTextNodes(frames[1].nodes)))} :
        /\ ast' = Some(root)
        /\ work' = <<Work(root, Px(DefaultFontSize))>>
    /\ pc' = "layout"
    /\ UNCHANGED <<tex, text, pos, frames, plan, refplan, rendered, guarded, result, reference,
                   mode,
                   threadVars, configVars, batchVars, unitVars>>

\* The innermost layout_node has a call of layout_node left to make.
LayoutPending ==
    Len(work[Len(work)].boxes)
        < Len(NodesToLayout(work[Len(work)].node, work[Len(work)].font_size))

\* The next call of layout_node by the innermost one.
LayoutEnter ==
    /\ pc = "layout"
    /\ LayoutPending
    /\ stages' = stages \cup {"layout"}
    /\ LET top == work[Len(work)]
           next == NodesToLayout(top.node, top.font_size)[Len(top.boxes) + 1]
       IN  work' = Append(work, Work(next.node, next.font_size))
    /\ UNCHANGED <<tex, pc, parserVars, plan, refplan, rendered, guarded, result, reference,
                   mode,
                   threadVars, configVars, batchVars, unitVars>>

\* The innermost layout_node builds its box and returns it: to the
\* layout_node that called it, or to layout::layout, which returns the plan.
LayoutReturn ==
    /\ pc = "layout"
    /\ ~LayoutPending
    /\ stages' = stages \cup {"layout"}
    /\ \E top \in {work[Len(work)]} :
       \E laid \in {LayoutNode(top.node, top.font_size, top.boxes, cache)},
          ref \in {LayoutNode(top.node, top.font_size, top.refs, fresh)} :
        /\ cache' = laid.cache
        /\ fresh' = ref.cache
        /\ rendered' = Some([node |-> top.node, font_size |-> top.font_size,
                              boxes |-> top.boxes, box |-> laid.box])
        /\ IF Len(work) > 1
           THEN /\ work' = [SubSeq(work, 1, Len(work) - 1)
                                EXCEPT ![Len(work) - 1].boxes = Append(@, laid.box),
                                       ![Len(work) - 1].refs = Append(@, ref.box)]
                /\ UNCHANGED <<pc, plan, refplan>>
           ELSE /\ work' = <<>>
                /\ plan' = Some(Layout(laid.box))
                /\ refplan' = Some(Layout(ref.box))
                /\ pc' = "serialize"
    /\ UNCHANGED <<tex, parserVars, guarded, result, reference, mode, calls,
                   configVars, batchVars, unitVars>>

SerializeStage ==
    /\ pc = "serialize"
    /\ stages' = stages \cup {"serialize"}
    /\ \E m \in {SvgTextMode(modeOverride, envDefault)} :
        /\ mode' = Some(m)
        /\ \E doc \in {RenderSvgDocument(plan[1], m)} :
            guarded' = Some(IF doc.ok THEN Completed(doc.val) ELSE Failed(doc.err))
        /\ \E doc \in {RenderSvgDocument(refplan[1], m)} :
            reference' = Some(doc)
    /\ pc' = "boundary"
    /\ UNCHANGED <<tex, parserVars, layoutVars, result,
                   threadVars, configVars, batchVars, unitVars>>

\* A panic raised by the stage the call is in: the closure unwinds to
\* catch_unwind and what it had built is dropped, as it does on the reference
\* thread.  In layout the model raises the panic in the call of layout_node
\* on the root.
Fault ==
    /\ pc \in GuardedStages
    /\ pc = "layout" => Len(work) = 1
    /\ guarded' = Some(Panicked)
    /\ pc' = "boundary"
    /\ pos' = 0
    /\ frames' = <<>>
    /\ ast' = None
    /\ work' = <<>>
    /\ plan' = None
    /\ refplan' = None
    /\ rendered' = None
    /\ reference' = Some(ErrR(UnexpectedPanic))
    /\ UNCHANGED <<tex, text, result, mode, stages,
                   threadVars, configVars, batchVars, unitVars>>

\* The match on guarded_result and the return.
Boundary ==
    /\ pc = "boundary"
    /\ result' = Some(GuardedResult(guarded[1]))
    /\ pc' = "returned"
    /\ UNCHANGED <<tex, parserVars, layoutVars, guarded, reference, mode, stages,
                   threadVars, configVars, batchVars, unitVars>>

\* The arguments of override_svg_text_mode.
ModeRequests == {None, Some("Text"), Some("Paths")}

\* config::override_svg_text_mode(request) between two calls, the request
\* being None or Some(mode).
OverrideSvgTextMode(request) ==
    /\ pc \in {"idle", "returned"}
    /\ modeOverride' = (CASE request = Some("Text") -> 1
                          [] request = Some("Paths") -> 2
                          [] request = None -> 0)
    /\ requested' = Some(request)
    /\ pc' = "idle"
    /\ result' = None
    /\ reference' = None
    /\ UNCHANGED <<tex, parserVars, layoutVars, guarded, mode, stages,
                   threadVars, envDefault, batchVars, unitVars>>


(***************************************************************************)
(* Inputs.                                                                 *)
(***************************************************************************)
\* x^{x^{ ... body ... }} with the given number of script levels.
RECURSIVE Nested(_, _)
Nested(depth, body) ==
    IF depth = 0 THEN body
    ELSE <<"x", "^", "{">> \o Nested(depth - 1, body) \o <<"}">>

Repeat(ch, count) == [i \in 1..count |-> ch]

ShallowTower == Nested(MaxDepth - 1, <<"a">>)
DeepTower == Nested(MaxDepth, Repeat("a", 10))

\* One character and white space up to one byte over the limit; one byte
\* over the limit without white space.
PaddedFormula == <<"x">> \o Repeat(" ", MaxFormulaBytes)
OversizeFormula == Repeat("x", MaxFormulaBytes + 1)

Formulas ==
    {<<>>,
     <<" ", " ">>,
     <<"x">>,
     <<"x", "^", "2", "^", "3">>,
     <<"\\", "f", "r", "a", "c", "{", "1", "}", "{", "2">>,
     <<"\\", "f", "r", "a", "c", "{", "a", "}", "{", "b", "}">>,
     <<" ", "x", "_", "i", " ">>,
     <<"<ctl>">>,
     ShallowTower, DeepTower, PaddedFormula, OversizeFormula}

(***************************************************************************)
(* Spec: calls of render_formula on one thread, one after the other, with  *)
(* changes of the output mode between them.                                *)
(***************************************************************************)
\* No call has built anything.
Blank ==
    /\ tex = <<>>
    /\ pos = 0
    /\ frames = <<>>
    /\ ast = None
    /\ work = <<>>
    /\ plan = None
    /\ refplan = None
    /\ rendered = None
    /\ guarded = None
    /\ result = None
    /\ reference = None
    /\ mode = None
    /\ stages = {}
    /\ fresh = EmptyCache

Idle ==
    /\ pc = "idle"
    /\ text = <<>>
    /\ Blank

NoBatch ==
    /\ texts = <<>>
    /\ results = <<>>
    /\ alone = <<>>
    /\ workerCache = <<>>
    /\ item = 0
    /\ worker = 0
    /\ batchOut = None

NoNorm ==
    /\ nin = <<>>
    /\ once = None
    /\ twice = None

NoEnv ==
    /\ envName = None
    /\ envBody = None

NoScan == scanned = None

NoStyle == styleBase = None

NoFfi ==
    /\ ffiIn = None
    /\ ffiOut = None

Init ==
    /\ Idle
    /\ cache = EmptyCache
    /\ calls = 0
    /\ modeOverride = 0
    /\ requested = None
    /\ envDefault \in {"Text", "Paths"}
    /\ NoBatch
    /\ NoNorm
    /\ NoEnv
    /\ NoStyle
    /\ NoScan
    /\ NoFfi

\* The steps of a call of render_formula that has been entered.
Render ==
    \/ EnsureFonts
    \/ TrimCheck
    \/ Normalize
    \/ ParseGuard
    \/ GroupEnter
    \/ GroupStep
    \/ GroupReturn
    \/ ParseFinish
    \/ LayoutEnter
    \/ LayoutReturn
    \/ SerializeStage
    \/ Fault
    \/ Boundary

Next ==
    \/ \E t \in Formulas : Call(t)
    \/ Render
    \/ \E request \in ModeRequests : OverrideSvgTextMode(request)

Spec == Init /\ [][Next]_vars

(***************************************************************************)
(* SpecParse: parse::parse on one input.                                   *)
(***************************************************************************)
\* The concatenations of at most n of the given tokens.
Words(tokens, n) ==
    {Concat(w) : w \in UNION {[1..k -> tokens] : k \in 0..n}}

ScriptTokens == {<<"x">>, <<"^">>, <<"_">>, <<"{">>, <<"}">>}

\* The commands that take a braced argument, one of each family.
BraceCommands ==
    {<<"\\", "f", "r", "a", "c">>, <<"\\", "b", "i", "n", "o", "m">>,
     <<"\\", "s", "q", "r", "t">>, <<"\\", "t", "e", "x", "t">>,
     <<"\\", "m", "a", "t", "r", "i", "x">>, <<"\\", "h", "a", "t">>,
     <<"\\", "m", "a", "t", "h", "b", "f">>, <<"\\", "b", "e", "g", "i", "n">>}

UnknownCommand == <<"\\", "z", "z">>

CommandTokens ==
    BraceCommands
        \cup {UnknownCommand, <<"x">>, <<"{">>, <<"}">>, <<"{", "}">>, <<"^">>,
              <<"\\", "l", "e", "f", "t", "(">>, <<"\\", "r", "i", "g", "h", "t", ")">>}

LeftToken == <<"\\", "l", "e", "f", "t", "(">>
RightToken == <<"\\", "r", "i", "g", "h", "t", ")">>

\* A \left span followed by delimiter tokens, braces and text.
DelimTokens == {LeftToken, RightToken, <<"x">>, <<"{">>, <<"}">>}

DelimInputs == {LeftToken \o w : w \in Words(DelimTokens, MaxDelimTokens)}

MaxRuns == 4

\* Text runs of three origins (plain characters, a \text block, an unknown
\* command), braces and a script marker.
TextTokens ==
    {<<"a">>, <<"\\", "t", "e", "x", "t", "{", "b", "}">>, <<"\\", "z", "z">>,
     <<"{">>, <<"}">>, <<"^">>}

TextInputs == Words(TextTokens, MaxRuns)

\* Cells that hold a separator inside a brace group, inside a braced command
\* argument or inside a nested environment.
NestedCells ==
    {<<"{", "a", "&", "b", "}">>,
     <<"{", "a", "\\", "\\", "b", "}">>,
     <<"\\", "f", "r", "a", "c", "{", "a", "&", "b", "}", "{", "c", "}">>,
     <<"\\", "b", "e", "g", "i", "n", "{", "m", "a", "t", "r", "i", "x", "}", "a", "&", "b",
       "\\", "e", "n", "d", "{", "m", "a", "t", "r", "i", "x", "}">>,
     <<"\\", "b", "e", "g", "i", "n", "{", "m", "a", "t", "r", "i", "x", "}", "a", "\\", "\\",
       "b", "\\", "e", "n", "d", "{", "m", "a", "t", "r", "i", "x", "}">>}

\* A \matrix and a matrix environment of one such cell.
NestedInputs ==
    {<<"\\", "m", "a", "t", "r", "i", "x", "{">> \o cell \o <<"}">> : cell \in NestedCells}
        \cup {<<"\\", "b", "e", "g", "i", "n", "{", "m", "a", "t", "r", "i", "x", "}">>
                \o cell
                \o <<"\\", "e", "n", "d", "{", "m", "a", "t", "r", "i", "x", "}">> :
              cell \in NestedCells}

\* A root with an index and a stacked arrow, each followed by one script.
ScriptedInputs ==
    {base \o marker \o <<"{", "e", "}">> :
        base \in {<<"\\", "s", "q", "r", "t", "[", "n", "]", "{", "v", "}">>,
                  <<"\\", "s", "q", "r", "t", "{", "v", "}">>,
                  <<"\\", "x", "r", "i", "g", "h", "t", "a", "r", "r", "o", "w", "{", "l", "}">>},
        marker \in {<<"^">>, <<"_">>}}

ParseInputs ==
    Words(ScriptTokens, MaxTokens) \cup Words(CommandTokens, MaxCommands) \cup DelimInputs
        \cup TextInputs \cup NestedInputs \cup ScriptedInputs

InitParse ==
    /\ pc = "guard"
    /\ text \in ParseInputs
    /\ Blank
    /\ cache = EmptyCache
    /\ calls = 0
    /\ modeOverride = 0
    /\ requested = None
    /\ envDefault = "Text"
    /\ NoBatch
    /\ NoNorm
    /\ NoEnv
    /\ NoStyle
    /\ NoScan
    /\ NoFfi

NextParse ==
    \/ ParseGuard
    \/ GroupEnter
    \/ GroupStep
    \/ GroupReturn
    \/ ParseFinish

SpecParse == InitParse /\ [][NextParse]_vars

\* The parser on words of a few tokens, never stopping while it has a step
\* to take.
MaxTermTokens == 2

InitParseFair ==
    /\ pc = "guard"
    /\ text \in Words(CommandTokens, MaxTermTokens)
    /\ Blank
    /\ cache = EmptyCache
    /\ calls = 0
    /\ modeOverride = 0
    /\ requested = None
    /\ envDefault = "Text"
    /\ NoBatch
    /\ NoNorm
    /\ NoEnv
    /\ NoStyle
    /\ NoScan
    /\ NoFfi

\* parse has been entered and has not returned.
ParseRunning == pc \in {"guard", "group"}

\* Weak fairness of the parser's steps, which are enabled exactly while parse
\* is running: the thread is not suspended forever inside parse.
ParseFairness == []<>(~ParseRunning) \/ []<><<NextParse>>_vars

SpecParseFair == InitParseFair /\ [][NextParse]_vars /\ ParseFairness

(***************************************************************************)
(* SpecBatch: render_formula_batch on a sequence of formulas.  The pool    *)
(* threads share nothing that a call writes, so the model runs the call on *)
(* an item to its return before the next item is taken; which thread takes *)
(* which item, and in which order, is free.                                *)
(***************************************************************************)
BatchFormulas ==
    {<<>>, <<"x">>, <<"x", "^", "2", "^", "3">>, ShallowTower, DeepTower}

Batches == UNION {[1..n -> BatchFormulas] : n \in 0..MaxBatch}

InitBatch ==
    /\ Idle
    /\ cache = EmptyCache
    /\ calls = 0
    /\ modeOverride = 0
    /\ requested = None
    /\ envDefault \in {"Text", "Paths"}
    /\ texts \in Batches
    /\ results = [i \in 1..Len(texts) |-> None]
    /\ alone = [i \in 1..Len(texts) |-> None]
    /\ workerCache = [w \in 1..MaxWorkers |-> EmptyCache]
    /\ item = 0
    /\ worker = 0
    /\ batchOut = None
    /\ NoNorm
    /\ NoEnv
    /\ NoStyle
    /\ NoScan
    /\ NoFfi

\* A pool thread takes an item and calls render_formula on it.
BatchTake(w, i) ==
    /\ batchOut = None
    /\ item = 0
    /\ results[i] = None
    /\ Enter(texts[i])
    /\ cache' = workerCache[w]
    /\ item' = i
    /\ worker' = w
    /\ UNCHANGED <<calls, configVars, texts, results, alone, workerCache, batchOut,
                   unitVars>>

\* The call has returned: its result goes to the slot of the item.
BatchStore ==
    /\ item # 0
    /\ pc = "returned"
    /\ results' = [results EXCEPT ![item] = result]
    /\ alone' = [alone EXCEPT ![item] = reference]
    /\ workerCache' = [workerCache EXCEPT ![worker] = cache]
    /\ item' = 0
    /\ worker' = 0
    /\ pc' = "idle"
    /\ UNCHANGED <<tex, parserVars, layoutVars, guarded, result, reference, mode, stages,
                   threadVars, configVars, texts, batchOut, unitVars>>

\* collect(): the vector of the results.
BatchCollect ==
    /\ batchOut = None
    /\ item = 0
    /\ \A i \in 1..Len(texts) : results[i] # None
    /\ batchOut' = Some([i \in 1..Len(texts) |-> results[i][1]])
    /\ UNCHANGED <<callVars, threadVars, configVars,
                   texts, results, alone, workerCache, item, worker, unitVars>>

NextBatch ==
    \/ \E w \in 1..MaxWorkers, i \in 1..Len(texts) : BatchTake(w, i)
    \/ Render
    \/ BatchStore
    \/ BatchCollect

SpecBatch == InitBatch /\ [][NextBatch]_vars

(***************************************************************************)
(* SpecNorm: normalize_escaped_commands on one input, once and once more.  *)
(***************************************************************************)
NormChars == {"\\", "a", " ", "<e>"}

NormInputs == UNION {[1..n -> NormChars] : n \in 0..MaxNormLen}

InitNorm ==
    /\ Idle
    /\ cache = EmptyCache
    /\ calls = 0
    /\ modeOverride = 0
    /\ requested = None
    /\ envDefault = "Text"
    /\ NoBatch
    /\ nin \in NormInputs
    /\ once = None
    /\ twice = None
    /\ NoEnv
    /\ NoStyle
    /\ NoScan
    /\ NoFfi

NormOnce ==
    /\ once = None
    /\ once' = Some(NormalizeEscapedCommands(nin))
    /\ UNCHANGED <<callVars, threadVars, configVars, batchVars, nin, twice, envVars,
                   styleVars, ffiVars, scanVars>>

NormTwice ==
    /\ once # None
    /\ twice = None
    /\ twice' = Some(NormalizeEscapedCommands(once[1]))
    /\ UNCHANGED <<callVars, threadVars, configVars, batchVars, nin, once, envVars,
                   styleVars, ffiVars, scanVars>>

NextNorm == NormOnce \/ NormTwice

SpecNorm == InitNorm /\ [][NextNorm]_vars

(***************************************************************************)
(* SpecEnv: parse_group meets \begin on one input and parse_environment    *)
(* runs: the name, the body, the rows and the match on the name  .           *)
(***************************************************************************)
BeginCommand == <<"\\", "b", "e", "g", "i", "n">>
EndCommand == <<"\\", "e", "n", "d">>

Braced(s) == <<"{">> \o s \o <<"}">>

\* A supported and an unsupported environment name.
EnvNames == {<<"m", "a", "t", "r", "i", "x">>, <<"f", "o", "o">>}

EnvTokens ==
    {BeginCommand \o Braced(n) : n \in EnvNames}
        \cup {EndCommand \o Braced(n) : n \in EnvNames}
        \cup {<<"x">>, <<"&">>, <<"}">>}

EnvInputs ==
    {BeginCommand \o Braced(n) \o w : n \in EnvNames, w \in Words(EnvTokens, MaxEnvTokens)}

InitEnv ==
    /\ pc = "command"
    /\ text \in EnvInputs
    /\ Blank
    /\ cache = EmptyCache
    /\ calls = 0
    /\ modeOverride = 0
    /\ requested = None
    /\ envDefault = "Text"
    /\ NoBatch
    /\ NoNorm
    /\ NoEnv
    /\ NoStyle
    /\ NoScan
    /\ NoFfi

\* The command branch of parse_group on \begin: environments::handle calls
\* parse_environment.
EnvCommand ==
    /\ pc = "command"
    /\ ParseCommand(text, pos + 1).name = <<"b", "e", "g", "i", "n">>
    /\ pos' = ParseCommand(text, pos + 1).pos
    /\ pc' = "environment"
    /\ stages' = stages \cup {"parse_environment"}
    /\ UNCHANGED <<tex, text, frames, ast, layoutVars, guarded, result, reference, mode,
                   threadVars, configVars, batchVars, unitVars>>

\* let name = parser.consume_braced_content(..)?
EnvName ==
    /\ pc = "environment"
    /\ \E r \in {ConsumeBracedContent(text, pos, "environment name")} :
       IF r.ok
       THEN /\ envName' = Some(r.val)
            /\ pos' = r.pos
            /\ pc' = "body"
            /\ UNCHANGED <<guarded, reference>>
       ELSE /\ StageFails(r.err)
            /\ UNCHANGED <<envName, pos>>
    /\ UNCHANGED <<tex, text, frames, ast, layoutVars, result, mode, stages,
                   threadVars, configVars, batchVars, normVars, envBody,
                   styleVars, ffiVars, scanVars>>

\* let body = consume_environment_body(parser, &name)?
EnvBody ==
    /\ pc = "body"
    /\ stages' = stages \cup {"consume_environment_body"}
    /\ \E r \in {ConsumeEnvironmentBody(text, pos, envName[1])} :
       IF r.ok
       THEN /\ envBody' = Some(r.val)
            /\ pos' = r.pos
            /\ pc' = "rows"
            /\ UNCHANGED <<guarded, reference>>
       ELSE /\ StageFails(r.err)
            /\ UNCHANGED <<envBody, pos>>
    /\ UNCHANGED <<tex, text, frames, ast, layoutVars, result, mode,
                   threadVars, configVars, batchVars, normVars, envName,
                   styleVars, ffiVars, scanVars>>

\* let rows = matrix::parse_rows(&body)? and the match on the name.
EnvRows ==
    /\ pc = "rows"
    /\ stages' = stages \cup {"parse_rows"}
    /\ \E rows \in {ParseRows(envBody[1])} :
       \E r \in {IF rows.ok THEN MatchEnvironment(Join(envName[1]), rows.val, pos) ELSE rows} :
       IF r.ok
       THEN /\ ast' = Some(r.val)
            /\ pc' = "matched"
            /\ UNCHANGED <<guarded, reference>>
       ELSE /\ StageFails(r.err)
            /\ UNCHANGED ast
    /\ UNCHANGED <<tex, text, pos, frames, layoutVars, result, mode,
                   threadVars, configVars, batchVars, unitVars>>

NextEnv == EnvCommand \/ EnvName \/ EnvBody \/ EnvRows

SpecEnv == InitEnv /\ [][NextEnv]_vars

(***************************************************************************)
(* SpecLayout: parse::parse and layout::layout on one formula, on a thread *)
(* that has laid out nothing before.                                       *)
(***************************************************************************)
\* Formulas with scripts on operators and on other bases, fractions, roots,
\* matrices and environments.
LayoutFormulas ==
    {<<"\\", "s", "u", "m", "_", "{", "i", "}", "^", "{", "n", "}">>,
     <<"\\", "s", "u", "m", "^", "{", "n", "}", "x">>,
     <<"\\", "l", "i", "m", "_", "{", "x", "}">>,
     <<"\\", "i", "n", "t", "_", "a", "^", "b">>,
     <<"x", "^", "{", "a", "}", "_", "{", "b", "}">>,
     <<"x", "_", "i">>,
     <<"{", "x", "y", "}", "^", "2">>,
     <<"\\", "f", "r", "a", "c", "{", "1", "}", "{", "2", "}">>,
     <<"\\", "f", "r", "a", "c", "{", "1", "}", "{", "2", "}", "^", "{", "3", "}">>,
     <<"\\", "f", "r", "a", "c", "{", "\\", "f", "r", "a", "c", "{", "a", "}", "{",
      "b", "}", "}", "{", "c", "}">>,
     <<"\\", "s", "q", "r", "t", "{", "x", "}", "^", "2">>,
     <<"\\", "m", "a", "t", "r", "i", "x", "{", "1", "&", "0", "\\", "\\", "0", "&",
      "1", "}">>,
     <<"\\", "m", "a", "t", "r", "i", "x", "{", "a", "}", "_", "b">>,
     <<"\\", "b", "e", "g", "i", "n", "{", "p", "m", "a", "t", "r", "i", "x", "}",
      "1", " ", "&", " ", "0", " ", "\\", "\\", " ", "0", " ", "&", " ", "1", "\\",
      "e", "n", "d", "{", "p", "m", "a", "t", "r", "i", "x", "}">>,
     <<"\\", "f", "r", "a", "c", "{", "\\", "m", "a", "t", "r", "i", "x", "{", "a",
      "}", "}", "{", "b", "}">>,
     <<"\\", "l", "e", "f", "t", "(", "\\", "s", "u", "m", "\\", "r", "i", "g", "h",
      "t", ")", "^", "2">>,
     <<"\\", "h", "a", "t", "{", "x", "}", "^", "2">>,
     <<"\\", "b", "e", "g", "i", "n", "{", "m", "a", "t", "r", "i", "x", "}", "a",
      "\\", "e", "n", "d", "{", "m", "a", "t", "r", "i", "x", "}">>,
     <<"x", "^", "{", "y", "^", "{", "\\", "f", "r", "a", "c", "{", "1", "}", "{",
      "2", "}", "}", "}">>,
     <<"\\", "m", "a", "t", "r", "i", "x", "{", "\\", "f", "r", "a", "c", "{", "a",
      "}", "{", "b", "}", "&", "c", "}">>}

InitLayout ==
    /\ pc = "guard"
    /\ text \in LayoutFormulas
    /\ Blank
    /\ cache = EmptyCache
    /\ calls = 0
    /\ modeOverride = 0
    /\ requested = None
    /\ envDefault = "Text"
    /\ NoBatch
    /\ NoNorm
    /\ NoEnv
    /\ NoStyle
    /\ NoScan
    /\ NoFfi

NextLayout ==
    \/ ParseGuard
    \/ GroupEnter
    \/ GroupStep
    \/ GroupReturn
    \/ ParseFinish
    \/ LayoutEnter
    \/ LayoutReturn

SpecLayout == InitLayout /\ [][NextLayout]_vars

(***************************************************************************)
(* styles::handle alone: a style command and its argument.                 *)
(***************************************************************************)
StyleCommands ==
    {<<"\\", "m", "a", "t", "h", "b", "f">>,
     <<"\\", "m", "a", "t", "h", "i", "t">>,
     <<"\\", "m", "a", "t", "h", "r", "m">>,
     <<"\\", "m", "a", "t", "h", "s", "f">>,
     <<"\\", "m", "a", "t", "h", "t", "t">>,
     <<"\\", "m", "a", "t", "h", "b", "b">>,
     <<"\\", "m", "a", "t", "h", "c", "a", "l">>,
     <<"\\", "m", "a", "t", "h", "f", "r", "a", "k">>}

StyleArguments ==
    {<<"{", "A", "}">>,
     <<"{", "a", "1", "+", "}">>,
     <<"{", "\\", "f", "r", "a", "c", "{", "A", "}", "{", "b", "}", "}">>,
     <<"{", "\\", "s", "q", "r", "t", "{", "x", "}", "}">>,
     <<"{", "\\", "l", "e", "f", "t", "(", "A", "\\", "r", "i", "g", "h", "t",
       ")", "}">>,
     <<"{", "\\", "m", "a", "t", "r", "i", "x", "{", "A", "&", "b", "}", "}">>,
     <<"{", "\\", "h", "a", "t", "{", "A", "}", "}">>,
     <<"{", "A", "^", "{", "b", "}", "_", "{", "1", "}", "}">>,
     <<"{", "\\", "s", "u", "m", "_", "{", "A", "}", "}">>,
     <<"{", "\\", "l", "i", "m", "}">>,
     <<"{", "}">>,
     <<"{", "x", "{", "Y", "2", "}", "}">>,
     <<"{", "A", "^", "}">>,
     <<"A">>}

StyleInputs == {c \o a : c \in StyleCommands, a \in StyleArguments}

\* The style that styles::handle finds for the command the input starts with.
StyleRead == StyleOf(Join(ParseCommand(text, 1).name))

InitStyle ==
    /\ pc = "command"
    /\ text \in StyleInputs
    /\ Blank
    /\ cache = EmptyCache
    /\ calls = 0
    /\ modeOverride = 0
    /\ requested = None
    /\ envDefault = "Text"
    /\ NoBatch
    /\ NoNorm
    /\ NoEnv
    /\ NoStyle
    /\ NoScan
    /\ NoFfi

\* styles::handle: the command names a style.
StyleCommand ==
    /\ pc = "command"
    /\ StyleRead # None
    /\ pos' = ParseCommand(text, pos + 1).pos
    /\ pc' = "block"
    /\ stages' = stages \cup {"handle_style"}
    /\ UNCHANGED <<tex, text, frames, ast, layoutVars, guarded, result, reference, mode,
                   threadVars, configVars, batchVars, unitVars>>

\* let base = parser.parse_block(..)?
StyleBlock ==
    /\ pc = "block"
    /\ \E r \in {ParseBlock(text, pos, "styled expression")} :
       IF r.ok
       THEN /\ styleBase' = Some(r.val)
            /\ pos' = r.pos
            /\ pc' = "apply"
            /\ UNCHANGED <<guarded, reference>>
       ELSE /\ StageFails(r.err)
            /\ UNCHANGED <<styleBase, pos>>
    /\ UNCHANGED <<tex, text, frames, ast, layoutVars, result, mode, stages,
                   threadVars, configVars, batchVars, normVars, envVars, ffiVars,
                   scanVars>>

\* Ok(apply_style(base, style))
StyleApply ==
    /\ pc = "apply"
    /\ ast' = Some(ApplyStyle(styleBase[1], StyleRead[1]))
    /\ pc' = "styled"
    /\ UNCHANGED <<tex, text, pos, frames, layoutVars, guarded, result, reference, mode,
                   stages, threadVars, configVars, batchVars, unitVars>>

NextStyle == StyleCommand \/ StyleBlock \/ StyleApply

SpecStyle == InitStyle /\ [][NextStyle]_vars

(***************************************************************************)
(* The extern render_svg (ffi.rs).  Its argument is a null pointer or a C  *)
(* string, given by the bytes before its terminating NUL; what it returns  *)
(* is a C string, given by the document it holds.                          *)
(***************************************************************************)
MaxFfiBytes == 3

NullPointer == [null |-> TRUE]
CStr(bytes) == [null |-> FALSE, bytes |-> bytes]
CString(content) == [null |-> FALSE, content |-> content, nul_terminated |-> TRUE]

\* The characters of the one-byte sequences among the bytes of the inputs.
Ascii == (32 :> " ") @@ (120 :> "x") @@ (123 :> "{") @@ (125 :> "}")

\* CStr::to_str: the characters of a UTF-8 byte sequence, or an error.
RECURSIVE Utf8Chars(_)
Utf8Chars(bytes) ==
    IF bytes = <<>> THEN [ok |-> TRUE, val |-> <<>>]
    ELSE IF Head(bytes) \in DOMAIN Ascii THEN
        LET rest == Utf8Chars(Tail(bytes))
        IN  IF rest.ok THEN [ok |-> TRUE, val |-> <<Ascii[Head(bytes)]>> \o rest.val]
            ELSE rest
    ELSE IF Head(bytes) \in 194..223 /\ Len(bytes) >= 2 /\ bytes[2] \in 128..191 THEN
        LET rest == Utf8Chars(Tail(Tail(bytes)))
        IN  IF rest.ok THEN [ok |-> TRUE, val |-> <<"<2 bytes>">> \o rest.val] ELSE rest
    ELSE ErrR(InvalidUtf8)

\* A fallback document: one red text element.
FallbackSvg(message) ==
    [width |-> 0, height |-> 0, lines |-> <<>>,
     items |-> <<[x |-> 0, y |-> 14, font_size |-> 14, text |-> <<message>>]>>]

INVALID_SVG == FallbackSvg("Invalid Formula")

\* The document without elements that holds the empty string.
EmptyString == [width |-> 0, height |-> 0, lines |-> <<>>, items |-> <<>>]

\* The document has a NUL character in one of its texts.
InteriorNul(svg) ==
    \E i \in 1..Len(svg.items) :
        \E k \in 1..Len(svg.items[i].text) : svg.items[i].text[k] = "<nul>"

StringToCPointer(svg) == IF InteriorNul(svg) THEN CString(EmptyString) ELSE CString(svg)

ErrorToSvg(err) ==
    CASE err.kind = "EmptyInput" -> StringToCPointer(FallbackSvg("Empty Formula"))
      [] err.kind = "InvalidUtf8" -> StringToCPointer(FallbackSvg("Invalid UTF-8"))
      [] OTHER -> StringToCPointer(INVALID_SVG)

\* The document render_formula returned.
SvgOf(val) == IF "text_svg" \in DOMAIN val THEN val.text_svg ELSE val.path_svg

FfiBytes == {32, 120, 123, 125, 195, 169, 255}

FfiArguments == {NullPointer} \cup {CStr(w) : w \in Words({<<b>> : b \in FfiBytes}, MaxFfiBytes)}

InitFfi ==
    /\ Idle
    /\ ffiIn \in {Some(a) : a \in FfiArguments}
    /\ ffiOut = None
    /\ cache = EmptyCache
    /\ calls = 0
    /\ modeOverride = 0
    /\ requested = None
    /\ envDefault = "Text"
    /\ NoBatch
    /\ NoNorm
    /\ NoEnv
    /\ NoStyle
    /\ NoScan

\* render_svg up to its call of render_formula: the returns for a null
\* pointer and for bytes that are not UTF-8.
FfiEnter ==
    /\ pc = "idle"
    /\ ffiOut = None
    /\ IF ffiIn[1].null \/ ~Utf8Chars(ffiIn[1].bytes).ok
       THEN /\ ffiOut' = Some(StringToCPointer(INVALID_SVG))
            /\ pc' = "exported"
            /\ UNCHANGED <<tex, parserVars, layoutVars, guarded, result, reference, mode,
                           stages, threadVars>>
       ELSE /\ Enter(Utf8Chars(ffiIn[1].bytes).val)
            /\ calls' = calls + 1
            /\ UNCHANGED <<ffiOut, cache>>
    /\ UNCHANGED <<configVars, batchVars, normVars, envVars, styleVars, ffiIn,
                   scanVars>>

\* The match on what render_formula returned.
FfiReturn ==
    /\ pc = "returned"
    /\ ffiOut = None
    /\ ffiOut' = Some(IF result[1].ok THEN StringToCPointer(SvgOf(result[1].val))
                      ELSE ErrorToSvg(result[1].err))
    /\ pc' = "exported"
    /\ UNCHANGED <<tex, parserVars, layoutVars, guarded, result, reference, mode, stages,
                   threadVars, configVars, batchVars, normVars, envVars, styleVars, ffiIn,
                   scanVars>>

NextFfi == FfiEnter \/ Render \/ FfiReturn

SpecFfi == InitFfi /\ [][NextFfi]_vars

(***************************************************************************)
(* The scanner alone (parse/lexer.rs): any operations, in any order, on a  *)
(* Parser made for a short input.  `text` is source, `pos` the cursor.     *)
(***************************************************************************)
MaxScanLen == 3

ScanChars == {<<"a">>, <<"{">>, <<"}">>, <<"\\">>, <<"^">>}

ScanInputs == Words(ScanChars, MaxScanLen)

\* The arguments of starts_with_str: those of consume_environment_body and
\* two short ones.
ScanPatterns ==
    {<<"\\", "b", "e", "g", "i", "n", "{">>, <<"\\", "e", "n", "d", "{">>,
     <<"\\", "a">>, <<"{">>}

Scanned(op, reads) == [op |-> op, reads |-> reads]

InitScan ==
    /\ pc = "scan"
    /\ text \in ScanInputs
    /\ Blank
    /\ cache = EmptyCache
    /\ calls = 0
    /\ modeOverride = 0
    /\ requested = None
    /\ envDefault = "Text"
    /\ NoBatch
    /\ NoNorm
    /\ NoEnv
    /\ NoStyle
    /\ scanned = None
    /\ NoFfi

\* What a scanner operation leaves alone.
ScanFrame ==
    UNCHANGED <<tex, pc, text, frames, ast, layoutVars, guarded, result, reference, mode,
                stages, threadVars, configVars, batchVars, normVars, envVars, styleVars,
                ffiVars>>

\* peek_char: source.get(pos).
ScanPeek ==
    /\ pc = "scan"
    /\ scanned' = Some(Scanned("peek_char", IF pos < Len(text) THEN {pos} ELSE {}))
    /\ UNCHANGED pos
    /\ ScanFrame

\* consume_char: get_unchecked(pos) under pos < len.
ScanConsume ==
    /\ pc = "scan"
    /\ scanned' = Some(Scanned("consume_char", IF pos < Len(text) THEN {pos} ELSE {}))
    /\ pos' = ConsumeChar(text, pos)
    /\ ScanFrame

ScanAdvance(count) ==
    /\ pc = "scan"
    /\ scanned' = Some(Scanned("advance", {}))
    /\ pos' = Advance(text, pos, count)
    /\ ScanFrame

\* parse_command: a peek at each letter and at what ends the name, and the
\* consume_char that takes one character for a name without letters.
ScanCommand ==
    /\ pc = "scan"
    /\ scanned' = Some(Scanned("parse_command",
                               {i \in pos..ParseCommand(text, pos).pos : i < Len(text)}))
    /\ pos' = ParseCommand(text, pos).pos
    /\ ScanFrame

\* parse_text_segment: a peek at each character of the run and at what ends
\* it, then the slice source[start..pos].
ScanTextSegment ==
    /\ pc = "scan"
    /\ scanned' = Some(Scanned("parse_text_segment",
                               {i \in pos..ParseTextSegment(text, pos).pos : i < Len(text)}))
    /\ pos' = ParseTextSegment(text, pos).pos
    /\ ScanFrame

\* consume_braced_content: the peek, then get_unchecked(pos) under pos < len
\* up to the closing brace, or up to the end when there is none.
ScanBraced ==
    /\ pc = "scan"
    /\ LET r == ConsumeBracedContent(text, pos, "scan")
           end == IF r.ok THEN r.pos
                  ELSE IF PeekChar(text, pos) = Some("{") THEN Len(text)
                  ELSE pos
       IN  /\ pos' = end
           /\ scanned' = Some(Scanned("consume_braced_content",
                                      {i \in pos..Max(pos, end - 1) : i < Len(text)}))
    /\ ScanFrame

\* starts_with_str: get_unchecked(idx) under idx < len, up to the first
\* character that differs.
ScanStartsWith(pattern) ==
    /\ pc = "scan"
    /\ LET same == {k \in 0..Len(pattern) :
                        \A j \in 1..k : pos + j <= Len(text) /\ text[pos + j] = pattern[j]}
           matched == CHOOSE k \in same : \A j \in same : j <= k
       IN  scanned' = Some([op |-> "starts_with_str",
                            reads |-> {i \in pos..(pos + matched) :
                                            i < Len(text) /\ i < pos + Len(pattern)},
                            found |-> StartsWithStr(text, pos, pattern)])
    /\ UNCHANGED pos
    /\ ScanFrame

NextScan ==
    \/ ScanPeek
    \/ ScanConsume
    \/ \E count \in 0..(MaxScanLen + 1) : ScanAdvance(count)
    \/ ScanCommand
    \/ ScanTextSegment
    \/ ScanBraced
    \/ \E pattern \in ScanPatterns : ScanStartsWith(pattern)

SpecScan == InitScan /\ [][NextScan]_vars

(***************************************************************************)
(* SpecRows: render_formula on a matrix written with row separators.       *)
(***************************************************************************)
MaxRows == 3

\* What a row can begin with: a letter, a digit, a space or a command.
RowSegments == {<<"b">>, <<"1">>, <<" ", "c">>, <<"\\", "z", "z">>}

RECURSIVE JoinRows(_)
JoinRows(segments) ==
    IF Len(segments) = 1 THEN segments[1]
    ELSE segments[1] \o RowSeparator \o JoinRows(Tail(segments))

MatrixCommand(segments) ==
    <<"\\", "m", "a", "t", "r", "i", "x", "{">> \o JoinRows(segments) \o <<"}">>

MatrixEnvironment(segments) ==
    <<"\\", "b", "e", "g", "i", "n", "{", "m", "a", "t", "r", "i", "x", "}">>
        \o JoinRows(segments)
        \o <<"\\", "e", "n", "d", "{", "m", "a", "t", "r", "i", "x", "}">>

RowLists == UNION {[1..k -> RowSegments] : k \in 1..MaxRows}

\* Matrices of 1..MaxRows rows in both notations, and one inside a group.
RowFormulas ==
    {MatrixCommand(segments) : segments \in RowLists}
        \cup {MatrixEnvironment(segments) : segments \in RowLists}
        \cup {<<"{">> \o MatrixCommand(<<<<"b">>, <<"1">>>>) \o <<"}", "x">>}

InitRows ==
    /\ Idle
    /\ cache = EmptyCache
    /\ calls = 0
    /\ modeOverride = 0
    /\ requested = None
    /\ envDefault = "Text"
    /\ NoBatch
    /\ NoNorm
    /\ NoEnv
    /\ NoStyle
    /\ NoScan
    /\ NoFfi

\* One call of render_formula.
CallRows(t) ==
    /\ pc = "idle"
    /\ Call(t)

NextRows ==
    \/ \E t \in RowFormulas : CallRows(t)
    \/ Render

SpecRows == InitRows /\ [][NextRows]_vars

(***************************************************************************)
(* Properties.                                                             *)
(***************************************************************************)
\* pat occurs in s.
Occurs(pat, s) == \E i \in 0..(Len(s) - Len(pat)) : StartsWithStr(s, i, pat)

\* The nodes directly below a node.
Subtrees(node) ==
    CASE node.type = "Group" -> node.children
      [] node.type = "Fraction" -> <<node.numerator, node.denominator>>
      [] node.type = "Sqrt" -> <<node.value>>
      [] node.type = "Delimited" -> <<node.inner>>
      [] node.type = "Matrix" -> Concat(node.rows)
      [] node.type = "Decorated" -> <<node.base>>
      [] node.type = "Scripts" -> <<node.base>> \o node.superscript \o node.subscript
      [] OTHER -> <<>>

\* The nodes of a tree, the root first.
RECURSIVE NodesOf(_)
NodesOf(node) ==
    <<node>> \o Concat([i \in 1..Len(Subtrees(node)) |-> NodesOf(Subtrees(node)[i])])

\* Some node of the tree satisfies the test.
SomeNode(node, Test(_)) == \E i \in 1..Len(NodesOf(node)) : Test(NodesOf(node)[i])

\* parse::parse has returned.
ParseReturned == pc \in {"layout", "boundary"}

ParseFailedWith(detail) ==
    /\ pc = "boundary"
    /\ guarded # None
    /\ guarded[1].kind = "err"
    /\ guarded[1].err.kind = "ParseError"
    /\ guarded[1].err.detail = detail

\* C1: render_formula returns a typed Result for every input: a panic raised
\* in parsing, layout or serialization comes back as Err(UnexpectedPanic),
\* the error of a stage comes back unchanged and the document of a call that
\* met neither comes back as Ok.
C1_FaultBoundary ==
    pc = "returned" =>
        /\ result # None
        /\ guarded # None =>
            /\ guarded[1].kind = "panic" => result[1] = [ok |-> FALSE, err |-> UnexpectedPanic]
            /\ guarded[1].kind = "err" => result[1] = [ok |-> FALSE, err |-> guarded[1].err]
            /\ guarded[1].kind = "ok" => result[1] = [ok |-> TRUE, val |-> guarded[1].val]
        /\ guarded = None => (~result[1].ok /\ result[1].err \in {EmptyInput, FontLoadError})

\* A panic raised in layout has come back as Err(UnexpectedPanic).
C1_Witness ==
    /\ pc = "returned"
    /\ guarded = Some(Panicked)
    /\ "layout" \in stages
    /\ result = Some(ErrR(UnexpectedPanic))

\* C2: a call of render_formula returns what the same call returns on a
\* thread that has rendered nothing before, in the same output mode: the
\* result does not depend on the contents of the glyph-metrics cache.
C2_Determinism == (pc = "returned" /\ reference # None) => result = reference

\* C3: render_formula_batch returns one result for each formula, result i
\* being what render_formula gives for formula i alone, whichever thread
\* took which item and in whichever order.
C3_BatchResults ==
    batchOut # None =>
        /\ Len(batchOut[1]) = Len(texts)
        /\ \A i \in 1..Len(texts) : Some(batchOut[1][i]) = alone[i]

\* The number of braced arguments a command of BraceCommands reads.
Arity(name) == IF Join(name) \in {"frac", "binom"} THEN 2 ELSE 1

\* Of the n braced arguments read from position p, one opens with a brace
\* that is not closed before the end of the input, the ones before it being
\* read without error.
RECURSIVE ArgsUnterminated(_, _, _)
ArgsUnterminated(src, p, n) ==
    /\ n > 0
    /\ PeekChar(src, p) = Some("{")
    /\ IF BraceScan(src, p + 1, 1) = -1 THEN TRUE
       ELSE /\ ParseBlock(src, p, "").ok
            /\ ArgsUnterminated(src, ParseBlock(src, p, "").pos, n - 1)

\* A command that takes braced arguments stands at position k, where the
\* parser reads a command, and one of its arguments is not closed.
UnterminatedArgumentAt(src, k) ==
    /\ src[k + 1] = "\\"
    /\ (<<"\\">> \o ParseCommand(src, k + 1).name) \in BraceCommands
    /\ Parse(SubSeq(src, 1, k) \o UnknownCommand).ok
    /\ ArgsUnterminated(src, ParseCommand(src, k + 1).pos,
                        Arity(ParseCommand(src, k + 1).name))

\* C4: when a command that takes a braced argument is read and the brace
\* that opens one of its arguments is not closed before the end of the
\* input, parsing fails with the ParseError of the missing closing brace.
C4_UnterminatedArgument ==
    (ParseReturned /\ \E k \in 0..(Len(text) - 1) : UnterminatedArgumentAt(text, k))
        => ParseFailedWith("missing matching brace")

\* \frac{}{ has been parsed: the second argument is the one left open.
C4_Witness ==
    /\ text = <<"\\", "f", "r", "a", "c", "{", "}", "{">>
    /\ UnterminatedArgumentAt(text, 0)
    /\ ParseFailedWith("missing matching brace")

\* The input with every unknown command replaced by \ln.
Known(src) ==
    [i \in 1..Len(src) |->
        IF src[i] # "z" THEN src[i] ELSE IF src[i - 1] = "\\" THEN "l" ELSE "n"]

HoldsUnknownCommand(node) == node.type = "Text" /\ Occurs(UnknownCommand, node.content)

\* C5: an input with an unknown command is parsed without error exactly when
\* it is with a known function name in its place, and in parse_group,
\* parse_atom and \left...\right the unknown command gives a Text node that
\* holds the control marker and the name.
C5_UnknownCommand ==
    (ParseReturned /\ Occurs(UnknownCommand, text)) =>
        /\ (pc = "layout") = Parse(Known(text)).ok
        /\ (pc = "layout" /\ \A c \in BraceCommands : ~Occurs(c, text))
                => SomeNode(ast[1], HoldsUnknownCommand)

\* \left(\zz\right) has been parsed without error.
C5_Witness ==
    /\ pc = "layout"
    /\ text = <<"\\", "l", "e", "f", "t", "(">> \o UnknownCommand
                \o <<"\\", "r", "i", "g", "h", "t", ")">>
    /\ ast[1].type = "Delimited"
    /\ HoldsUnknownCommand(ast[1].inner)

\* C6: on an input that is empty or white space only render_formula enters
\* no stage of normalization, scanning or parsing and returns
\* Err(EmptyInput).
C6_EmptyInput ==
    (\A i \in 1..Len(tex) : tex[i] \in WhiteSpace) =>
        /\ stages = {}
        /\ pc = "returned" => result = Some(ErrR(EmptyInput))

\* The call on two blanks has returned.
C6_Witness ==
    /\ pc = "returned"
    /\ tex = <<" ", " ">>
    /\ result = Some(ErrR(EmptyInput))

\* C7: a formula of more than 5120 bytes is rejected with the ParseError of
\* the size limit and never reaches parse_group.
C7_SizeGuard ==
    ByteLen(tex) > MaxFormulaBytes =>
        /\ "parse_group" \notin stages
        /\ pc = "returned" =>
                result = Some(ErrR(ParseError("formula exceeds 5KB limit")))

\* The step attaches a script: the return of the group opened after a script
\* marker, or the iteration of parse_group on a script marker whose atom is
\* read without error.
AttachesScript ==
    /\ pc = "group"
    /\ IF GroupEnds
       THEN Len(frames) > 1 /\ frames[Len(frames)].via \in {"^", "_"}
       ELSE /\ text[pos + 1] \in {"^", "_"}
            /\ GroupOpens = None
            /\ ParseAtom(text, pos + 1).ok

\* The children the script is attached to, the marker and the script.
ScriptTarget ==
    IF GroupEnds THEN frames[Len(frames) - 1].nodes ELSE frames[Len(frames)].nodes
ScriptMarker == IF GroupEnds THEN frames[Len(frames)].via ELSE text[pos + 1]
ScriptNode ==
    IF GroupEnds THEN Group(MergeTextNodes(frames[Len(frames)].nodes))
    ELSE ParseAtom(text, pos + 1).val

ScriptOf(node, marker) ==
    IF node.type # "Scripts" THEN None
    ELSE IF marker = "^" THEN node.superscript ELSE node.subscript

BaseOf(node) == IF node.type = "Scripts" THEN node.base ELSE node

Other(marker) == IF marker = "^" THEN "_" ELSE "^"

\* C8: attaching a superscript to a node that has one, or a subscript to a
\* node that has one, fails with the ParseError of the duplicate superscript
\* (subscript); otherwise the node becomes, in place, one Scripts node that
\* holds the new script and the script it had.
C8_DuplicateScript ==
    [][(AttachesScript /\ ScriptTarget # <<>>) =>
        LET last == ScriptTarget[Len(ScriptTarget)] IN
        IF ScriptOf(last, ScriptMarker) # None
        THEN /\ pc' = "boundary"
             /\ guarded' = Some(Failed(ParseError(
                    IF ScriptMarker = "^" THEN "duplicate superscript"
                    ELSE "duplicate subscript")))
        ELSE /\ pc' = "group"
             /\ Len(frames'[Len(frames')].nodes) = Len(ScriptTarget)
             /\ LET now == frames'[Len(frames')].nodes[Len(ScriptTarget)] IN
                 /\ now.type = "Scripts"
                 /\ now.base = BaseOf(last)
                 /\ ScriptOf(now, ScriptMarker) = Some(ScriptNode)
                 /\ ScriptOf(now, Other(ScriptMarker)) = ScriptOf(last, Other(ScriptMarker))
      ]_vars

\* x^x^x has been rejected for its second superscript.
C8_Witness ==
    /\ text = <<"x", "^", "x", "^", "x">>
    /\ ParseFailedWith("duplicate superscript")

IsSingletonGroup(node) == node.type = "Group" /\ Len(node.children) = 1

\* C9: in the tree of a successful parse no Group node has exactly one
\* child, at the root or below it.
C9_GroupFlattening == pc = "layout" => ~SomeNode(ast[1], IsSingletonGroup)

\* C10: a second pass of normalize_escaped_commands changes nothing.
C10_Idempotence == twice # None => twice = once

\* tok stands in s at position p (from 1).
TokenAt(s, p, tok) == p + Len(tok) - 1 <= Len(s) /\ SubSeq(s, p, p + Len(tok) - 1) = tok

\* The input of parse_environment after \begin{name}.
EnvRest == SubSeq(text, Len(BeginCommand) + Len(envName[1]) + 3, Len(text))

\* The depth of nesting of \begin{n} ... \end{n} in s before position p.
EnvDepth(s, n, p) ==
    1 + Cardinality({q \in 1..(p - 1) : TokenAt(s, q, BeginCommand \o Braced(n))})
      - Cardinality({q \in 1..(p - 1) : TokenAt(s, q, EndCommand \o Braced(n))})

\* The positions of the \end{n} that bring the depth to zero.
EnvClosings(s, n) ==
    {p \in 1..Len(s) : TokenAt(s, p, EndCommand \o Braced(n)) /\ EnvDepth(s, n, p) = 1}

\* C11: consume_environment_body returns the text between \begin{name} and
\* the first \end{name} that brings the depth of same-named environments to
\* zero, the environments of other names not counting, and leaves the cursor
\* after that \end{name}; if there is none it fails with the ParseError of
\* the unterminated environment.
C11_NestedEnvironments ==
    "consume_environment_body" \in stages =>
        LET closings == EnvClosings(EnvRest, envName[1])
            close == CHOOSE p \in closings : \A q \in closings : p <= q
        IN  IF closings = {}
            THEN envBody = None /\ ParseFailedWith("unterminated environment")
            ELSE /\ envBody = Some(SubSeq(EnvRest, 1, close - 1))
                 /\ pos = Len(text) - Len(EnvRest) + close + Len(EndCommand) + Len(envName[1]) + 1

C11_Witness ==
    /\ envName = Some(<<"m", "a", "t", "r", "i", "x">>)
    /\ envBody = Some(BeginCommand \o Braced(envName[1]) \o <<"x">>
                        \o EndCommand \o Braced(envName[1]))
    /\ pos = Len(text)

SupportedEnvironments ==
    {"cases", "pmatrix", "bmatrix", "Bmatrix", "vmatrix", "Vmatrix", "matrix", "array",
     "aligned", "align"}

\* C12: parse_environment on \begin{name} ... \end{name} with a name that is
\* not one of the supported environments fails with the ParseError of the
\* unsupported environment, whatever the body is.
C12_UnsupportedEnvironment ==
    (/\ pc \in {"matched", "boundary"}
     /\ envName # None
     /\ Join(envName[1]) \notin SupportedEnvironments
     /\ EnvClosings(EnvRest, envName[1]) # {})
        => ParseFailedWith("unsupported environment")

\* The position in s of the \right that closes the span whose \left token
\* ends before p, `open` being the spans and brace groups open at p,
\* innermost last: a \right closes the innermost open span unless a brace
\* group is open inside it.  0: the input ends first; -1: a closing brace
\* meets no open brace group.
RECURSIVE SpanClose(_, _, _)
SpanClose(s, p, open) ==
    IF p > Len(s) THEN 0
    ELSE IF TokenAt(s, p, LeftToken)
    THEN SpanClose(s, p + Len(LeftToken), Append(open, "span"))
    ELSE IF TokenAt(s, p, RightToken)
    THEN IF open[Len(open)] = "brace" THEN SpanClose(s, p + Len(RightToken), open)
         ELSE IF Len(open) = 1 THEN p
         ELSE SpanClose(s, p + Len(RightToken), SubSeq(open, 1, Len(open) - 1))
    ELSE IF s[p] = "{" THEN SpanClose(s, p + 1, Append(open, "brace"))
    ELSE IF s[p] = "}"
    THEN IF open[Len(open)] = "brace"
         THEN SpanClose(s, p + 1, SubSeq(open, 1, Len(open) - 1))
         ELSE -1
    ELSE SpanClose(s, p + 1, open)

\* The first node of the formula, without the scripts attached to it.
FirstNode(root) ==
    LET first == IF root.type = "Group" /\ root.children # <<>> THEN root.children[1]
                 ELSE root
    IN  IF first.type = "Scripts" THEN first.base ELSE first

\* C13: a \left span is closed by the first \right at its own nesting level,
\* a \right in a brace group or of a nested span not closing it; the node is
\* Delimited with, for inner, what the text between the two delimiter tokens
\* parses to; a span the input ends in makes the parse fail, with the
\* ParseError of the missing \right when what follows the \left token parses.
C13_DelimiterSpans ==
    (ParseReturned /\ TokenAt(text, 1, LeftToken)) =>
        LET close == SpanClose(text, Len(LeftToken) + 1, <<"span">>)
            inner == Parse(SubSeq(text, Len(LeftToken) + 1, close - 1))
            rest == Parse(SubSeq(text, Len(LeftToken) + 1, Len(text)))
        IN  CASE close = 0 ->
                    /\ pc = "boundary"
                    /\ rest.ok => ParseFailedWith("missing matching \\right")
              [] close = -1 -> TRUE
              [] OTHER ->
                    IF ~inner.ok THEN pc = "boundary"
                    ELSE pc = "layout" =>
                            FirstNode(ast[1])
                                = Delimited(Delimiter(Some(<<"(">>)), inner.val,
                                            Delimiter(Some(<<")">>)))

C13_Witness ==
    /\ text = LeftToken \o LeftToken \o <<"x">> \o RightToken \o RightToken
    /\ pc = "layout"
    /\ ast[1].type = "Delimited"
    /\ ast[1].inner.type = "Delimited"

\* The boxes layout_scripts has for the base and the scripts of the Scripts
\* node that `rendered` holds (the scripts as Options).
ScriptsBase == rendered[1].boxes[1]
ScriptsSup == SubSeq(rendered[1].boxes, 2, 1 + Len(rendered[1].node.superscript))
ScriptsSub ==
    SubSeq(rendered[1].boxes, 2 + Len(rendered[1].node.superscript), Len(rendered[1].boxes))

\* How far the part whose items follow the first k items of the whole has
\* been moved in it.
Shift(part, whole, k) ==
    [dx |-> whole.items[k + 1].x - part.items[1].x,
     dy |-> whole.items[k + 1].y - part.items[1].y]

\* The items of the part stand in the whole after its first k items, all
\* moved alike.
PlacedAt(part, whole, k) ==
    /\ part.items # <<>>
    /\ Len(whole.items) >= k + Len(part.items)
    /\ SubSeq(whole.items, k + 1, k + Len(part.items))
         = OffsetItems(part.items, Shift(part, whole, k).dx, Shift(part, whole, k).dy)

\* The scripts are stacked: superscript, base, subscript from top to bottom,
\* none overlapping the next, each centered in the width of the whole, which
\* is the width of the widest.
ScriptsStacked ==
    LET whole == rendered[1].box
        base == ScriptsBase
        sup == ScriptsSup
        sub == ScriptsSub
        parts == sup \o <<base>> \o sub
        before(i) == SeqSum([j \in 1..(i - 1) |-> Len(parts[j].items)])
        shift(i) == Shift(parts[i], whole, before(i))
    IN  /\ whole.width = SeqMax([i \in 1..Len(parts) |-> parts[i].width], 0)
        /\ Len(whole.items) = before(Len(parts) + 1)
        /\ \A i \in 1..Len(parts) :
            /\ PlacedAt(parts[i], whole, before(i))
            /\ shift(i).dx = (whole.width - parts[i].width) \div 2
            /\ shift(i).dy >= 0
            /\ shift(i).dy + parts[i].height <= whole.height
            /\ i > 1 => shift(i - 1).dy + parts[i - 1].height <= shift(i).dy

\* The scripts stand to the right of the base: both start at
\* max(base width - italic correction, 0) + 8% of the font size.
ScriptsRight ==
    LET whole == rendered[1].box
        base == ScriptsBase
        scripts == ScriptsSup \o ScriptsSub
        before(i) == Len(base.items) + SeqSum([j \in 1..(i - 1) |-> Len(scripts[j].items)])
    IN  /\ base.script_policy = "Right"
        /\ PlacedAt(base, whole, 0)
        /\ Shift(base, whole, 0).dx = 0
        /\ \A i \in 1..Len(scripts) :
            /\ PlacedAt(scripts[i], whole, before(i))
            /\ Shift(scripts[i], whole, before(i)).dx
                 = Max(base.width - base.italic_correction, 0)
                     + Scale(rendered[1].font_size, 80)

\* C14: the scripts of a Symbol or LargeOperator base are stacked above and
\* below it, centered, and not placed to its right; those of a Text, Group,
\* Fraction, Sqrt or Matrix base start at max(base width - italic
\* correction, 0) + 8% of the font size; layout_scripts lays out the base at
\* the current font size and each script at 70% of it.
C14_ScriptPlacement ==
    /\ (rendered # None /\ rendered[1].node.type = "Scripts") =>
        /\ rendered[1].node.base.type \in {"Symbol", "LargeOperator"} => ScriptsStacked
        /\ rendered[1].node.base.type \in {"Text", "Group", "Fraction", "Sqrt", "Matrix"}
                => ScriptsRight
    /\ \A i \in 2..Len(work) :
            work[i - 1].node.type = "Scripts" =>
                work[i].font_size = IF work[i - 1].boxes = <<>>
                                    THEN work[i - 1].font_size
                                    ELSE Scale(work[i - 1].font_size, 700)

C14_Witness ==
    /\ rendered # None
    /\ rendered[1].node.type = "Scripts"
    /\ rendered[1].node.base.type = "Symbol"
    /\ rendered[1].node.superscript # None
    /\ rendered[1].node.subscript # None
    /\ ScriptsStacked

\* The formula \frac{1}{2}.
HalfFormula == <<"\\", "f", "r", "a", "c", "{", "1", "}", "{", "2", "}">>

\* C15: laying out a Fraction adds exactly one line segment to those of its
\* numerator and denominator; the segment is horizontal, spans the inner
\* width, lies 20% of the font size below the numerator's bottom and 20% of
\* the font size above the denominator's top, and its stroke width is
\* max(7% of the font size, 1); the plan of \frac{1}{2} has exactly one line.
C15_FractionBar ==
    /\ (rendered # None /\ rendered[1].node.type = "Fraction") =>
        LET whole == rendered[1].box
            num == rendered[1].boxes[1]
            den == rendered[1].boxes[2]
            up == Shift(num, whole, 0)
            down == Shift(den, whole, Len(num.items))
            bar == whole.lines[Len(whole.lines)]
            gap == Scale(rendered[1].font_size, 200)
            top == bar.y1 - bar.stroke_width \div 2
        IN  /\ PlacedAt(num, whole, 0)
            /\ PlacedAt(den, whole, Len(num.items))
            /\ Len(whole.lines) = Len(num.lines) + Len(den.lines) + 1
            /\ SubSeq(whole.lines, 1, Len(num.lines)) = OffsetLines(num.lines, up.dx, up.dy)
            /\ SubSeq(whole.lines, Len(num.lines) + 1, Len(whole.lines) - 1)
                 = OffsetLines(den.lines, down.dx, down.dy)
            /\ bar.y1 = bar.y2
            /\ bar.x1 = Min(up.dx, down.dx)
            /\ bar.x2 - bar.x1 = Max(num.width, den.width)
            /\ bar.stroke_width = Max(Scale(rendered[1].font_size, 70), Px(1))
            /\ top = up.dy + num.height + gap
            /\ top + bar.stroke_width + gap = down.dy
    /\ (text = HalfFormula /\ plan # None) => Len(plan[1].lines) = 1

C15_Witness ==
    /\ rendered # None
    /\ rendered[1].node.type = "Fraction"
    /\ Scale(rendered[1].font_size, 70) < Px(1)
    /\ rendered[1].box.lines[1].stroke_width = Px(1)

\* The opening of a pmatrix environment.
BeginPmatrix ==
    <<"\\", "b", "e", "g", "i", "n", "{", "p", "m", "a", "t", "r", "i", "x", "}">>

\* C16: laying out a Matrix with rows adds exactly six line segments to those
\* of its cells: on each side one vertical stroke over the whole height and
\* two horizontal hooks starting at it and pointing inwards, all six with the
\* same stroke width; the plan of a pmatrix environment has at least six lines
\* and both the "(" and the ")" glyph.
C16_MatrixBrackets ==
    /\ (rendered # None /\ rendered[1].node.type = "Matrix" /\ rendered[1].node.rows # <<>>) =>
        LET whole == rendered[1].box
            cells == rendered[1].boxes
            inner == Concat([i \in 1..Len(cells) |-> cells[i].lines])
            bracket(i) == whole.lines[Len(inner) + i]
        IN  /\ Len(whole.lines) = Len(inner) + 6
            /\ \A i \in 1..Len(inner) : whole.lines[i].stroke_width = inner[i].stroke_width
            /\ \A i \in 1..6 : bracket(i).stroke_width = bracket(1).stroke_width
            /\ \A i \in {1, 4} :
                /\ bracket(i).x1 = bracket(i).x2
                /\ bracket(i).y1 = 0
                /\ bracket(i).y2 = whole.height
                /\ \A h \in {i + 1, i + 2} :
                    /\ bracket(h).y1 = bracket(h).y2
                    /\ bracket(h).x1 = bracket(i).x1
                /\ bracket(i + 1).y1 = 0
                /\ bracket(i + 2).y1 = whole.height
            /\ bracket(1).x1 < bracket(2).x2
            /\ bracket(2).x2 = bracket(3).x2
            /\ bracket(2).x2 < bracket(5).x2
            /\ bracket(5).x2 = bracket(6).x2
            /\ bracket(5).x2 < bracket(4).x1
    /\ (TokenAt(text, 1, BeginPmatrix) /\ plan # None) =>
        /\ Len(plan[1].lines) >= 6
        /\ \E i, j \in 1..Len(plan[1].items) :
            /\ i < j
            /\ plan[1].items[i].text = <<"(">>
            /\ plan[1].items[j].text = <<")">>

C16_Witness ==
    /\ TokenAt(text, 1, BeginPmatrix)
    /\ plan # None
    /\ Len(plan[1].lines) = 6
    /\ Len(plan[1].items) = 6

\* The second tree has the shape of the first (the same variants, child counts
\* and order, delimiters, decorations, Symbol and LargeOperator nodes) and each
\* Text leaf has as many characters, each one mapped by the style or, outside
\* the domain of the style, left as it is.
RECURSIVE Restyled(_, _, _)
Restyled(a, b, style) ==
    /\ a.type = b.type
    /\ CASE a.type = "Text" ->
                /\ Len(b.content) = Len(a.content)
                /\ \A i \in 1..Len(a.content) :
                    b.content[i] = IF MapChar(a.content[i], style) = None THEN a.content[i]
                                   ELSE MapChar(a.content[i], style)[1]
         [] a.type = "Group" ->
                /\ Len(b.children) = Len(a.children)
                /\ \A i \in 1..Len(a.children) : Restyled(a.children[i], b.children[i], style)
         [] a.type = "Fraction" ->
                /\ Restyled(a.numerator, b.numerator, style)
                /\ Restyled(a.denominator, b.denominator, style)
         [] a.type = "Sqrt" -> Restyled(a.value, b.value, style)
         [] a.type = "Delimited" ->
                /\ b.left = a.left
                /\ b.right = a.right
                /\ Restyled(a.inner, b.inner, style)
         [] a.type = "Matrix" ->
                /\ Len(b.rows) = Len(a.rows)
                /\ \A r \in 1..Len(a.rows) :
                    /\ Len(b.rows[r]) = Len(a.rows[r])
                    /\ \A c \in 1..Len(a.rows[r]) : Restyled(a.rows[r][c], b.rows[r][c], style)
         [] a.type = "Decorated" ->
                /\ b.decoration = a.decoration
                /\ Restyled(a.base, b.base, style)
         [] a.type = "Scripts" ->
                /\ Restyled(a.base, b.base, style)
                /\ Len(b.superscript) = Len(a.superscript)
                /\ Len(b.subscript) = Len(a.subscript)
                /\ \A i \in 1..Len(a.superscript) :
                    Restyled(a.superscript[i], b.superscript[i], style)
                /\ \A i \in 1..Len(a.subscript) :
                    Restyled(a.subscript[i], b.subscript[i], style)
         [] a.type \in {"Symbol", "LargeOperator"} -> b = a
         [] OTHER -> FALSE

\* C17: what a style wrapper makes of its parsed argument has the shape of the
\* argument, each Text leaf with as many characters, each mapped by the style's
\* transform or left as it is outside its domain; \mathrm and \mathit give the
\* argument back unchanged.
C17_StyleKeepsShape ==
    pc = "styled" =>
        /\ Restyled(styleBase[1], ast[1], StyleRead[1])
        /\ StyleRead[1] \in {"Roman", "Italic"} => ast[1] = styleBase[1]

C17_Witness ==
    /\ pc = "styled"
    /\ StyleRead[1] = "Calligraphic"
    /\ styleBase[1].type = "Group"
    /\ ast[1] # styleBase[1]
    /\ Restyled(styleBase[1], ast[1], "Calligraphic")

\* C18: render_svg returns a non-null NUL-terminated string holding a
\* document, never an error; for a null pointer it holds the generic
\* fallback, for bytes that are not UTF-8 the invalid-encoding fallback, for
\* an empty formula the empty-formula fallback, and for every other failure
\* the generic fallback.
C18_ForeignBoundary ==
    ffiOut # None =>
        /\ ~ffiOut[1].null
        /\ ffiOut[1].nul_terminated
        /\ ffiIn[1].null => ffiOut[1].content = FallbackSvg("Invalid Formula")
        /\ ~ffiIn[1].null =>
            IF ~Utf8Chars(ffiIn[1].bytes).ok
            THEN ffiOut[1].content = FallbackSvg("Invalid UTF-8")
            ELSE /\ result # None
                 /\ ~result[1].ok =>
                        ffiOut[1].content =
                            IF Trim(Utf8Chars(ffiIn[1].bytes).val) = <<>>
                            THEN FallbackSvg("Empty Formula")
                            ELSE FallbackSvg("Invalid Formula")

\* C19: the mode a render reads is the argument of the last call of
\* override_svg_text_mode if that was Some(mode), and the environment default
\* if there was no call or the last call passed None; a render in Text mode
\* returns the base document with its text elements, a render in Paths mode
\* the document with the text converted to paths.
C19_ModeResolution ==
    (mode # None /\ pc \in {"boundary", "returned"}) =>
        /\ mode[1] = IF requested # None /\ requested[1] # None THEN requested[1][1]
                     ELSE envDefault
        /\ (result # None /\ result[1].ok) =>
            /\ mode[1] = "Text" => result[1].val = [text_svg |-> BuildBaseSvg(plan[1])]
            /\ mode[1] = "Paths" => result[1].val = [path_svg |-> BuildBaseSvg(plan[1])]

C19_Witness ==
    /\ pc = "returned"
    /\ calls = 2
    /\ requested = Some(None)
    /\ envDefault = "Paths"
    /\ result # None
    /\ result[1].ok
    /\ "path_svg" \in DOMAIN result[1].val

\* The braces of s from position i on, `depth` groups being open: the position
\* of the first "}" with no open group (0 if there is none) and the number of
\* groups left open at the end.
RECURSIVE BraceBalance(_, _, _)
BraceBalance(s, i, depth) ==
    IF i > Len(s) THEN [closing |-> 0, open |-> depth]
    ELSE IF s[i] = "{" THEN BraceBalance(s, i + 1, depth + 1)
    ELSE IF s[i] = "}" THEN
        IF depth = 0 THEN [closing |-> i, open |-> 0] ELSE BraceBalance(s, i + 1, depth - 1)
    ELSE BraceBalance(s, i + 1, depth)

\* The parse of a text that has a "}" with no open group, after a text that
\* parses, has failed with "unmatched closing brace".
UnmatchedClosingFails ==
    LET scan == BraceBalance(text, 1, 0) IN
    (ParseReturned /\ scan.closing > 0 /\ Parse(SubSeq(text, 1, scan.closing - 1)).ok) =>
        ParseFailedWith("unmatched closing brace")

\* C20: a parse succeeds only if the braces of the formula text are balanced:
\* a "}" with no open group fails it with "unmatched closing brace", and a
\* group left open at the end of the input fails it too.
C20_BraceBalance ==
    /\ UnmatchedClosingFails
    /\ pc = "layout" =>
        /\ BraceBalance(text, 1, 0).closing = 0
        /\ BraceBalance(text, 1, 0).open = 0

\* The font size of a script k levels below the formula.
RECURSIVE ScriptSize(_)
ScriptSize(k) == IF k = 0 THEN Px(DefaultFontSize) ELSE Scale(ScriptSize(k - 1), 700)

\* Whatever has been looked up before on the thread, cached_metrics gives for
\* a character at the font size of a script what the font gives for them.
CacheReadsThrough ==
    \A k \in 0..MaxDepth : \A ch \in {"a", "x"} :
        CachedMetrics(ch, ScriptSize(k), cache).metrics = FontMetrics(ch, ScriptSize(k))

\* An entry of the cache stays, with the metrics it was inserted with.
CacheAppendOnly ==
    \A key \in DOMAIN cache : key \in DOMAIN cache' /\ cache'[key] = cache[key]

\* C21: the metrics cache is read-through: after any earlier lookups on the
\* thread cached_metrics(c, s) returns the metrics the font gives for (c, s),
\* also when another size with the same 1/100 key was looked up before; an
\* entry once inserted is never overwritten or removed.
C21_CacheReadThrough == []CacheReadsThrough /\ [][CacheAppendOnly]_vars

\* What is left to do in the parse: twice the characters after the cursor
\* plus the calls of parse_group that have not returned.
ParseMeasure == 2 * (Len(text) - pos) + Len(frames)

\* A step of the parser that does not return from parse takes the measure
\* down: an iteration of the loop advances the cursor or returns.
ParseAdvances == (pc = "group" /\ pc' = "group") => ParseMeasure' < ParseMeasure

\* The content that consume_braced_content hands to a nested parser is
\* shorter than the input it was taken from, wherever it is read.
NestedInputShorter ==
    \A p \in 0..Len(text) :
        ConsumeBracedContent(text, p, "block").ok =>
            Len(ConsumeBracedContent(text, p, "block").val) < Len(text)

C23_CursorBound ==
    /\ [](pc = "scan" =>
            /\ pos \in 0..Len(text)
            /\ scanned # None => scanned[1].reads \subseteq 0..(Len(text) - 1))
    /\ [][pc = "scan" =>
            /\ pos' >= pos
            /\ scanned'[1].op \in {"peek_char", "starts_with_str"} => pos' = pos]_vars

C23_Witness ==
    /\ pc = "scan"
    /\ scanned # None
    /\ scanned[1].op = "consume_braced_content"
    /\ Len(text) = MaxScanLen
    /\ pos = Len(text)
    /\ text[Len(text)] # "}"
    /\ scanned[1].reads = 0..(Len(text) - 1)

\* The lines of the part stand in the whole after its first k lines, moved
\* by (dx, dy).
LinesPlacedAt(part, whole, k, dx, dy) ==
    /\ Len(whole.lines) >= k + Len(part.lines)
    /\ \A i \in 1..Len(part.lines) :
        whole.lines[k + i] = [part.lines[i] EXCEPT !.x1 = @ + dx, !.y1 = @ + dy,
                                                   !.x2 = @ + dx, !.y2 = @ + dy]

\* at[i] and at[j] start two stretches, of the given lengths, that do not
\* overlap.
Apart(at, lengths) ==
    \A i, j \in DOMAIN at :
        i # j => \/ at[i] + lengths[i] <= at[j]
                 \/ at[j] + lengths[j] <= at[i]

\* The items and the lines of each of the boxes stand in the whole once, as
\* they are but for their place, all those of one box moved by the same
\* (dx, dy), the stretches of two boxes not overlapping.
ComposedByOffset(boxes, whole) ==
    LET n == Len(boxes) IN
    /\ \E at \in [1..n -> 0..Len(whole.items)] :
        /\ \A i \in 1..n : PlacedAt(boxes[i], whole, at[i])
        /\ Apart(at, [i \in 1..n |-> Len(boxes[i].items)])
        /\ \E to \in [1..n -> 0..Len(whole.lines)] :
            /\ \A i \in 1..n :
                LinesPlacedAt(boxes[i], whole, to[i],
                              Shift(boxes[i], whole, at[i]).dx,
                              Shift(boxes[i], whole, at[i]).dy)
            /\ Apart([i \in {j \in 1..n : boxes[j].lines # <<>>} |-> to[i]],
                     [i \in 1..n |-> Len(boxes[i].lines)])

\* C24: whatever the node, the items and lines of each child box are in the
\* parent box exactly once, with their text, font size and stroke width, all
\* those of one child moved by the same (dx, dy); the plan is the root box
\* moved by (padding, padding), padding being 20% of the base font size, and
\* is wider and higher than the root box by twice the padding.
C24_FixedOffset ==
    /\ rendered # None => ComposedByOffset(rendered[1].boxes, rendered[1].box)
    /\ (plan # None /\ rendered # None) =>
        LET padding == Scale(Px(DefaultFontSize), 200)
            root == rendered[1].box
        IN  /\ plan[1].width = root.width + 2 * padding
            /\ plan[1].height = root.height + 2 * padding
            /\ plan[1].items = [i \in 1..Len(root.items) |->
                                    [root.items[i] EXCEPT !.x = @ + padding, !.y = @ + padding]]
            /\ plan[1].lines = [i \in 1..Len(root.lines) |->
                                    [root.lines[i] EXCEPT !.x1 = @ + padding, !.y1 = @ + padding,
                                                          !.x2 = @ + padding, !.y2 = @ + padding]]

C24_Witness ==
    /\ rendered # None
    /\ rendered[1].node.type = "Fraction"
    /\ rendered[1].boxes[1].lines # <<>>
    /\ ComposedByOffset(rendered[1].boxes, rendered[1].box)

\* Two neighbours of the sequence are Text nodes.
AdjacentText(nodes) ==
    \E i \in 1..(Len(nodes) - 1) : nodes[i].type = "Text" /\ nodes[i + 1].type = "Text"

\* The sequence with every Text node cut into one Text node per character.
Spread(nodes) ==
    Concat([i \in 1..Len(nodes) |->
                IF nodes[i].type = "Text"
                THEN [j \in 1..Len(nodes[i].content) |-> Text(<<nodes[i].content[j]>>)]
                ELSE <<nodes[i]>>])

\* The children are the nodes with every run of Text nodes replaced by one
\* Text node holding the run's contents in order.
RunsMerged(children, nodes) ==
    /\ ~AdjacentText(children)
    /\ Spread(children) = Spread(nodes)
    /\ Len(children) <= Len(nodes)

\* No Group of the tree has two neighbouring Text children.
NoAdjacentText(root) ==
    \A i \in 1..Len(NodesOf(root)) :
        NodesOf(root)[i].type = "Group" => ~AdjacentText(NodesOf(root)[i].children)

\* The root that parse returns is made of the merged top-level nodes, a lone
\* child standing for its group.
RootMerged ==
    (pc = "layout" /\ ast # None) =>
        /\ NoAdjacentText(ast[1])
        /\ \E children \in {<<ast[1]>>}
                \cup (IF ast[1].type = "Group" THEN {ast[1].children} ELSE {}) :
              /\ RunsMerged(children, frames[1].nodes)
              /\ ast[1] = IF Len(children) = 1 THEN children[1] ELSE Group(children)

\* A nested group that closes hands its caller a Group of its merged nodes.
NestedMerged ==
    (pc = "group" /\ pc' = "group" /\ Len(frames') = Len(frames) - 1) =>
        LET done == frames[Len(frames)].nodes
            stack == frames'[Len(frames')].nodes
        IN  /\ stack # <<>>
            /\ \E i \in 1..Len(NodesOf(stack[Len(stack)])) :
                  LET node == NodesOf(stack[Len(stack)])[i]
                  IN  /\ node.type = "Group"
                      /\ RunsMerged(node.children, done)

\* C25: in every group of a parsed tree, top level and nested alike, no two
\* neighbouring children are both Text nodes: each run of Text nodes the
\* parser produced is one Text node holding the run's contents in order.
C25_TextMerged == []RootMerged /\ [][NestedMerged]_vars

\* A plain run, a \text block and an unknown command have become one node.
C25_Witness ==
    /\ pc = "layout"
    /\ ast # None
    /\ Len(frames[1].nodes) = 3
    /\ ast[1] = Text(<<"a", "b", "\\", "z", "z">>)

\* The root of the parsed tree is a Matrix of k rows.
MatrixOfRows(k) ==
    /\ ast[1].type = "Matrix"
    /\ Len(ast[1].rows) = k

\* C26: when render_formula is given a \matrix or a matrix environment whose
\* interior is k non-empty segments separated by row separators, the tree
\* that parse returns is a Matrix of exactly k rows, whichever character
\* follows a separator.
C26_RowsSurvive ==
    (pc = "layout" /\ ast # None) =>
        \A segments \in RowLists :
            tex \in {MatrixCommand(segments), MatrixEnvironment(segments)} =>
                MatrixOfRows(Len(segments))

\* C27: a row or column separator inside a brace group, a braced command
\* argument or a nested environment within a cell does not split the
\* enclosing environment: the parse succeeds with a Matrix of one row of one
\* cell.
C27_NestedSeparators ==
    (ParseReturned /\ text \in NestedInputs) =>
        /\ pc = "layout"
        /\ ast # None
        /\ ast[1].type = "Matrix"
        /\ Len(ast[1].rows) = 1
        /\ Len(ast[1].rows[1]) = 1

\* The number of times the character occurs in the input.
Occurrences(s, ch) == Cardinality({i \in 1..Len(s) : s[i] = ch})

\* C28: an input that holds at most one '^' and at most one '_', and so
\* attaches at most one of each to any base, is never rejected with a
\* duplicate-script error, whatever the base is.
C28_OwnMarkersOnly ==
    (Occurrences(text, "^") <= 1 /\ Occurrences(text, "_") <= 1) =>
        /\ ~ParseFailedWith("duplicate superscript")
        /\ ~ParseFailedWith("duplicate subscript")

\* A double control marker followed by a letter stands in s at position i.
EscapedCommandAt(s, i) ==
    /\ i + 2 <= Len(s)
    /\ s[i] = "\\"
    /\ s[i + 1] = "\\"
    /\ IsAsciiAlphabetic(s[i + 2])

\* The characters of s at the kept positions, in order.
RECURSIVE KeepOnly(_, _)
KeepOnly(s, kept) ==
    IF s = <<>> THEN <<>>
    ELSE (IF 1 \in kept THEN <<s[1]>> ELSE <<>>)
            \o KeepOnly(Tail(s), {i - 1 : i \in kept \ {1}})

\* C29: the output of normalize_escaped_commands is the input without one
\* control marker of each collapsed pair (a double control marker followed
\* by a letter), every other character, ASCII or multi-byte, being kept
\* unchanged and in order; the output is never longer than the input, and
\* an input without such a pair is returned unchanged.
C29_OnlyMarkersCollapsed ==
    once # None =>
        /\ \E kept \in SUBSET (1..Len(nin)) :
              /\ once[1] = KeepOnly(nin, kept)
              /\ \A i \in (1..Len(nin)) \ kept : EscapedCommandAt(nin, i)
        /\ ByteLen(once[1]) <= ByteLen(nin)
        /\ (\A i \in 1..Len(nin) : ~EscapedCommandAt(nin, i)) => once[1] = nin

\* The box has a non-negative width and height and its baseline lies in it.
WellFormed(box) ==
    /\ box.width >= 0
    /\ box.height >= 0
    /\ box.baseline >= 0
    /\ box.baseline <= box.height

\* C30: the box that layout_node returns for a node, whatever the node and
\* its font size, has width >= 0, height >= 0 and 0 <= baseline <= height,
\* and the width and the height of the plan are at least twice the padding.
C30_BoxWellFormed ==
    /\ rendered # None => WellFormed(rendered[1].box)
    /\ plan # None =>
        /\ plan[1].width >= 2 * Scale(Px(DefaultFontSize), 200)
        /\ plan[1].height >= 2 * Scale(Px(DefaultFontSize), 200)

\* A group of two children has been laid out, and the plan made from it.
C30_Witness ==
    /\ rendered # None
    /\ plan # None
    /\ rendered[1].node.type = "Group"
    /\ Len(rendered[1].boxes) >= 2
    /\ rendered[1].box.baseline > 0
    /\ rendered[1].box.height > rendered[1].box.baseline
    /\ rendered[1].box.width > 0

=============================================================================
